---------------------------- MODULE Spec2Model ----------------------------
(***************************************************************************)
(* Model of swayimg's image list (src/src/imglist.c) and gallery thumbnail *)
(* loader (src/src/gallery.c).                                             *)
(*                                                                         *)
(* Strings are sequences of byte values.  An entry of the image list is a  *)
(* record; its "id" is the address of the struct image.  The list itself   *)
(* is the sequence of entries from ctx.images to the tail.                 *)
(***************************************************************************)
EXTENDS Integers, Sequences, FiniteSets, TLC

VARIABLES
    images,         \* imglist ctx.images: the list, head first
    size,           \* imglist ctx.size
    order,          \* imglist ctx.order
    reverse,        \* imglist ctx.reverse
    loop,           \* imglist ctx.loop
    recursive,      \* imglist ctx.recursive
    lock,           \* imglist ctx.lock: the set of threads that hold it
    last,           \* the last call made on the list and what it returned
    loader_active,  \* gallery ctx.loader_active
    loader_tid,     \* gallery ctx.loader_tid: the thread last created
    current,        \* gallery ctx.layout.current: the address of an entry
    ui,             \* the UI thread: where it is, and its locals
    workers,        \* the loader threads: where each is, and its locals
    ub              \* a freed entry has been used

listvars == <<images, size, order, reverse, loop>>
galleryvars == <<recursive, lock, loader_active, loader_tid, current, ui, workers, ub>>
vars == <<images, size, order, reverse, loop, last, recursive, lock,
          loader_active, loader_tid, current, ui, workers, ub>>

(***************************************************************************)
(* Bounds of the model.                                                    *)
(***************************************************************************)
MaxEntries == 3
MaxJump == 3
MaxWorkers == 2
MaxSec == 2

(***************************************************************************)
(* Strings.                                                                *)
(***************************************************************************)
NULL == 0

\* "img1.png", "img2.png", "img10.png", "img01.png"
s_img1 == <<105, 109, 103, 49, 46, 112, 110, 103>>
s_img2 == <<105, 109, 103, 50, 46, 112, 110, 103>>
s_img10 == <<105, 109, 103, 49, 48, 46, 112, 110, 103>>
s_img01 == <<105, 109, 103, 48, 49, 46, 112, 110, 103>>
\* "img"
s_img == <<105, 109, 103>>
\* "a.png", "b.png", "c.png", "B.png"
s_a == <<97, 46, 112, 110, 103>>
s_b == <<98, 46, 112, 110, 103>>
s_c == <<99, 46, 112, 110, 103>>
s_B == <<66, 46, 112, 110, 103>>
\* "0" and "9223372036854775808" (2^63)
s_zero == <<48>>
s_big == <<57, 50, 50, 51, 51, 55, 50, 48, 51, 54, 56, 53, 52, 55, 55, 53, 56, 48, 56>>

\* "/a/1", "/a/2", "/b/1", "/b/2"
s_a1 == <<47, 97, 47, 49>>
s_a2 == <<47, 97, 47, 50>>
s_b1 == <<47, 98, 47, 49>>
s_b2 == <<47, 98, 47, 50>>
s_ab1 == <<47, 97, 47, 98, 47, 49>>

\* isdigit(3)
isdigit(c) == c \in 48..57

Sign(n) == IF n < 0 THEN -1 ELSE IF n > 0 THEN 1 ELSE 0

\* strcmp(3): sign of the first differing byte, the end of a string being 0
RECURSIVE strcmp_from(_, _, _)
strcmp_from(a, b, i) ==
    LET ca == IF i > Len(a) THEN 0 ELSE a[i]
        cb == IF i > Len(b) THEN 0 ELSE b[i]
    IN IF ca # cb THEN Sign(ca - cb)
       ELSE IF ca = 0 THEN 0
       ELSE strcmp_from(a, b, i + 1)

strcmp(a, b) == strcmp_from(a, b, 1)

\* strcoll(3) in the "C" locale
strcoll(a, b) == strcmp(a, b)

(***************************************************************************)
(* Unsigned 64-bit numbers, written as decimal digits (most significant    *)
(* first, no leading zero, zero is the empty sequence).                    *)
(***************************************************************************)
ULLONG_MAX_digits == <<1, 8, 4, 4, 6, 7, 4, 4, 0, 7, 3, 7, 0, 9, 5, 5, 1, 6, 1, 5>>
TwoPow63_digits == <<9, 2, 2, 3, 3, 7, 2, 0, 3, 6, 8, 5, 4, 7, 7, 5, 8, 0, 8>>

RECURSIVE BigNorm(_)
BigNorm(d) ==
    IF d = <<>> THEN <<>>
    ELSE IF Head(d) = 0 THEN BigNorm(Tail(d))
    ELSE d

RECURSIVE BigCmpFrom(_, _, _)
BigCmpFrom(x, y, i) ==
    IF i > Len(x) THEN 0
    ELSE IF x[i] # y[i] THEN Sign(x[i] - y[i])
    ELSE BigCmpFrom(x, y, i + 1)

\* x, y normalised
BigCmp(x, y) ==
    IF Len(x) # Len(y) THEN Sign(Len(x) - Len(y))
    ELSE BigCmpFrom(x, y, 1)

\* digit k (1 = least significant) of x, 0 beyond its length
BigDigit(x, k) == IF k > Len(x) THEN 0 ELSE x[Len(x) - k + 1]

\* x - y for x >= y: the digits from the k-th up, least significant last
RECURSIVE BigSubFrom(_, _, _, _)
BigSubFrom(x, y, k, borrow) ==
    IF k > Len(x) THEN <<>>
    ELSE LET d == BigDigit(x, k) - BigDigit(y, k) - borrow
         IN IF d < 0
            THEN BigSubFrom(x, y, k + 1, 1) \o <<d + 10>>
            ELSE BigSubFrom(x, y, k + 1, 0) \o <<d>>

BigSub(x, y) == BigNorm(BigSubFrom(x, y, 1, 0))

\* the digits of a run of digit characters
RunDigits(run) == [k \in 1..Len(run) |-> run[k] - 48]

\* strtoull(3), base 10, on a run of digits: the value, ULLONG_MAX on overflow
strtoull(run) ==
    LET v == BigNorm(RunDigits(run))
    IN IF BigCmp(v, ULLONG_MAX_digits) > 0 THEN ULLONG_MAX_digits ELSE v

\* The sign of (ssize_t)(x - y) for unsigned 64-bit x and y: the difference
\* is taken modulo 2^64 and is negative as ssize_t when it is 2^63 or more.
U64DiffSign(x, y) ==
    IF x = y THEN 0
    ELSE IF BigCmp(x, y) > 0
         THEN IF BigCmp(BigSub(x, y), TwoPow63_digits) >= 0 THEN -1 ELSE 1
         ELSE IF BigCmp(BigSub(y, x), TwoPow63_digits) > 0 THEN 1 ELSE -1

\* the index after the run of digits of s that starts at i
RECURSIVE DigitsEnd(_, _)
DigitsEnd(s, i) ==
    IF i <= Len(s) /\ isdigit(s[i]) THEN DigitsEnd(s, i + 1) ELSE i


(***************************************************************************)
(* The image list: imglist.c                                               *)
(***************************************************************************)
Orders == {"none", "alpha", "numeric", "mtime", "size", "random"}

\* the position (1..Len) in the list of the entry at address id, 0 if none
PosOf(imgs, id) ==
    IF \E p \in 1..Len(imgs) : imgs[p].id = id
    THEN CHOOSE p \in 1..Len(imgs) : imgs[p].id = id
    ELSE 0

\* the first position from p on whose entry satisfies Test, 0 if none:
\* list_for_each(...) { if (Test(it)) { pos = it; break; } }
FirstFrom(imgs, p, Test(_)) ==
    IF \E q \in p..Len(imgs) : Test(imgs[q])
    THEN CHOOSE q \in p..Len(imgs) :
            Test(imgs[q]) /\ \A r \in p..(q - 1) : ~Test(imgs[r])
    ELSE 0

\* imglist_find: the position of the first entry with that source, 0 if none
imglist_find(imgs, source) ==
    LET Same(it) == strcmp(source, it.source) = 0
    IN FirstFrom(imgs, 1, Same)

\* The numeric comparison of ordered_position, from a[i] and b[j] on, with
\* cmp = 0 so far: the sign of cmp when the loop ends.
RECURSIVE numeric_cmp_from(_, _, _, _)
numeric_cmp_from(a, b, i, j) ==
    IF i > Len(a) \/ j > Len(b) THEN 0
    ELSE IF isdigit(a[i]) /\ isdigit(b[j])
         THEN LET ea == DigitsEnd(a, i)
                  eb == DigitsEnd(b, j)
                  cmp == U64DiffSign(strtoull(SubSeq(a, i, ea - 1)),
                                     strtoull(SubSeq(b, j, eb - 1)))
              IN IF cmp # 0 THEN cmp ELSE numeric_cmp_from(a, b, ea, eb)
         ELSE LET cmp == Sign(a[i] - b[j])
              IN IF cmp # 0 THEN cmp ELSE numeric_cmp_from(a, b, i + 1, j + 1)

numeric_cmp(a, b) == numeric_cmp_from(a, b, 1, 1)

\* cmp with the two entries exchanged for the orders by time and by size
order_cmp_swapped(ord, img, it) ==
    CASE ord = "alpha" -> strcoll(img.source, it.source)
      [] ord = "numeric" -> numeric_cmp(img.source, it.source)
      [] ord = "mtime" -> Sign(img.file_time - it.file_time)
      [] ord = "size" -> Sign(img.file_size - it.file_size)

\* cmp of ordered_position for the new entry img against the entry it
order_cmp(ord, img, it) ==
    CASE ord = "alpha" -> strcoll(img.source, it.source)
      [] ord = "numeric" -> numeric_cmp(img.source, it.source)
      [] ord = "mtime" -> Sign(it.file_time - img.file_time)
      [] ord = "size" -> Sign(it.file_size - img.file_size)

\* ordered_position with the reverse flag not honoured
ordered_position_noreverse(imgs, sz, ord, rev, img, rnd) ==
    IF ord = "none" THEN 0
    ELSE IF ord = "random"
         THEN LET index == rnd % sz
              IN IF index + 1 <= Len(imgs) THEN index + 1 ELSE 0
    ELSE LET Before(it) == order_cmp(ord, img, it) < 0
         IN FirstFrom(imgs, 1, Before)

\* ordered_position: the position of the entry to insert img before, 0 for
\* none.  sz is ctx.size, which already counts img; rnd is rand().
ordered_position(imgs, sz, ord, rev, img, rnd) ==
    IF ord = "none" THEN 0
    ELSE IF ord = "random"
         THEN LET index == rnd % sz
              IN IF index + 1 <= Len(imgs) THEN index + 1 ELSE 0
    ELSE LET Before(it) ==
                 LET cmp == order_cmp(ord, img, it)
                 IN (rev /\ cmp > 0) \/ (~rev /\ cmp < 0)
         IN FirstFrom(imgs, 1, Before)

\* list_insert(pos, entry): entry linked in before the entry at position p
list_insert(imgs, p, entry) ==
    SubSeq(imgs, 1, p - 1) \o <<entry>> \o SubSeq(imgs, p, Len(imgs))

\* list_append(head, entry)
list_append(imgs, entry) == Append(imgs, entry)

\* list_remove(entry) for the entry at position p
list_remove(imgs, p) ==
    SubSeq(imgs, 1, p - 1) \o SubSeq(imgs, p + 1, Len(imgs))

\* the address image_create gets for a new entry: one no live entry has
NewId(imgs) ==
    CHOOSE i \in 1..(Len(imgs) + 1) :
        /\ \A p \in 1..Len(imgs) : imgs[p].id # i
        /\ \A j \in 1..(i - 1) : \E p \in 1..Len(imgs) : imgs[p].id = j

\* add_entry that refreshes the file size and time of an entry it finds
add_entry_refresh(imgs, sz, ord, rev, source, st, rnd) ==
    LET found == imglist_find(imgs, source)
    IN IF found # 0
       THEN [images |-> [imgs EXCEPT ![found].file_size = st[1].st_size,
                                     ![found].file_time = st[1].st_mtime],
             size |-> sz, entry |-> imgs[found].id]
       ELSE LET entry == [id |-> NewId(imgs), source |-> source, index |-> sz + 1,
                          file_size |-> st[1].st_size, file_time |-> st[1].st_mtime,
                          thumb |-> FALSE, frames |-> FALSE]
                pos == ordered_position(imgs, sz + 1, ord, rev, entry, rnd)
            IN [images |-> IF pos # 0 THEN list_insert(imgs, pos, entry)
                                      ELSE list_append(imgs, entry),
                size |-> sz + 1,
                entry |-> entry.id]

\* add_entry without its search for duplicates
add_entry_nofind(imgs, sz, ord, rev, source, st, rnd) ==
    LET entry == [id |-> NewId(imgs), source |-> source, index |-> sz + 1,
                  file_size |-> IF st = <<>> THEN 0 ELSE st[1].st_size,
                  file_time |-> IF st = <<>> THEN 0 ELSE st[1].st_mtime,
                  thumb |-> FALSE, frames |-> FALSE]
        pos == ordered_position(imgs, sz + 1, ord, rev, entry, rnd)
    IN [images |-> IF pos # 0 THEN list_insert(imgs, pos, entry)
                              ELSE list_append(imgs, entry),
        size |-> sz + 1,
        entry |-> entry.id]

\* add_entry(source, st): the list and ctx.size after the call, and the
\* address of the entry returned.  st is <<>> for NULL, or <<stat record>>.
add_entry(imgs, sz, ord, rev, source, st, rnd) ==
    LET found == imglist_find(imgs, source)
    IN IF found # 0
       THEN [images |-> imgs, size |-> sz, entry |-> imgs[found].id]
       ELSE LET entry == [id |-> NewId(imgs),
                          source |-> source,
                          index |-> sz + 1,
                          file_size |-> IF st = <<>> THEN 0 ELSE st[1].st_size,
                          file_time |-> IF st = <<>> THEN 0 ELSE st[1].st_mtime,
                          thumb |-> FALSE,
                          frames |-> FALSE]
                pos == ordered_position(imgs, sz + 1, ord, rev, entry, rnd)
            IN [images |-> IF pos # 0 THEN list_insert(imgs, pos, entry)
                                      ELSE list_append(imgs, entry),
                size |-> sz + 1,
                entry |-> entry.id]

\* reindex: the list after it; ctx.size is then Len of the list
reindex(imgs) == [p \in 1..Len(imgs) |-> [imgs[p] EXCEPT !.index = p]]

\* imglist_remove without its reindex()
imglist_remove_noreindex(imgs, p) == list_remove(imgs, p)

\* imglist_remove(img) for the entry at position p: the list after it
imglist_remove(imgs, p) == reindex(list_remove(imgs, p))

\* list_next, list_prev of the entry at position p: a position, 0 for NULL
list_next(imgs, p) == IF p < Len(imgs) THEN p + 1 ELSE 0

list_prev(imgs, p) == IF p > 1 THEN p - 1 ELSE 0

\* the address of the entry at position p, NULL for position 0
IdAt(imgs, p) == IF p = 0 THEN NULL ELSE imgs[p].id

\* the forward walk of imglist_jump testing "--distance == 0"
RECURSIVE jump_forward_predec(_, _, _)
jump_forward_predec(imgs, it, distance) ==
    IF it = 0 THEN 0
    ELSE IF distance - 1 = 0 THEN it
    ELSE jump_forward_predec(imgs, list_next(imgs, it), distance - 1)

\* imglist_jump, distance > 0: list_for_each(img, it) with "distance-- == 0"
RECURSIVE jump_forward(_, _, _)
jump_forward(imgs, it, distance) ==
    IF it = 0 THEN 0
    ELSE IF distance = 0 THEN it
    ELSE jump_forward(imgs, list_next(imgs, it), distance - 1)

\* imglist_jump, distance < 0: list_for_each_back(img, it), "distance++ == 0"
RECURSIVE jump_backward(_, _, _)
jump_backward(imgs, it, distance) ==
    IF it = 0 THEN 0
    ELSE IF distance = 0 THEN it
    ELSE jump_backward(imgs, list_prev(imgs, it), distance + 1)

\* imglist_jump(img, distance) for the entry at position p: the position of
\* the target, 0 for NULL
imglist_jump(imgs, p, distance) ==
    IF distance > 0 THEN jump_forward(imgs, p, distance)
    ELSE IF distance < 0 THEN jump_backward(imgs, p, distance)
    ELSE p

\* the loop of imglist_rand, "while (offset--)", from position it: list_next,
\* and ctx.images after the last entry
RECURSIVE rand_walk(_, _, _)
rand_walk(imgs, it, offset) ==
    IF offset = 0 THEN it
    ELSE LET next == list_next(imgs, it)
         IN rand_walk(imgs, IF next = 0 THEN 1 ELSE next, offset - 1)

\* imglist_rand with an offset that can be 0
imglist_rand_zero(imgs, sz, p, rnd) == rand_walk(imgs, p, rnd % sz)

\* imglist_rand(img) for the entry at position p, with ctx.size sz greater
\* than 1 and rnd what rand() returns: the position of the entry returned
imglist_rand(imgs, sz, p, rnd) == rand_walk(imgs, p, 1 + (rnd % (sz - 1)))

\* list_for_each(from, it) { if (it == to) break; count; }: the entries
\* counted, from position it on
RECURSIVE count_until(_, _, _)
count_until(imgs, it, to) ==
    IF it = 0 \/ it = to THEN 0
    ELSE 1 + count_until(imgs, list_next(imgs, it), to)

\* imglist_distance counting up in both branches
imglist_distance_unsigned(imgs, ps, pe) ==
    IF imgs[ps].index <= imgs[pe].index
    THEN count_until(imgs, ps, pe)
    ELSE count_until(imgs, pe, ps)

\* imglist_distance(start, end) for the entries at positions ps and pe
imglist_distance(imgs, ps, pe) ==
    IF imgs[ps].index <= imgs[pe].index
    THEN count_until(imgs, ps, pe)
    ELSE 0 - count_until(imgs, pe, ps)

\* strrchr(s, '/'): the position of the last '/' in s, 0 for NULL
RECURSIVE strrchr_slash(_, _)
strrchr_slash(s, i) ==
    IF i = 0 THEN 0
    ELSE IF s[i] = 47 THEN i
    ELSE strrchr_slash(s, i - 1)

\* "delim ? delim - src : 0" of get_next_parent
parent_len(src) ==
    LET delim == strrchr_slash(src, Len(src))
    IN IF delim # 0 THEN delim - 1 ELSE 0

\* strncmp(a, b, n)
strncmp(a, b, n) ==
    strcmp(SubSeq(a, 1, IF n < Len(a) THEN n ELSE Len(a)),
           SubSeq(b, 1, IF n < Len(b) THEN n ELSE Len(b)))

\* a comparison of the parents by their lengths alone
parent_differs_len(cur_src, it_src) == parent_len(cur_src) # parent_len(it_src)

\* get_next_parent, "cur_len != it_len || strncmp(cur_src, it_src, cur_len)"
parent_differs(cur_src, it_src) ==
    \/ parent_len(cur_src) # parent_len(it_src)
    \/ strncmp(cur_src, it_src, parent_len(cur_src)) # 0

\* the while loop of get_next_parent from the entry at position it, for the
\* start entry at position p: the position found (0 for NULL) and the
\* number of iterations made
RECURSIVE get_next_parent_scan(_, _, _, _, _, _)
get_next_parent_scan(imgs, lp, forward, p, it, steps) ==
    LET moved == IF forward THEN list_next(imgs, it) ELSE list_prev(imgs, it)
        to == IF moved = 0 /\ lp
              THEN (IF forward THEN 1 ELSE Len(imgs))
              ELSE moved
    IN IF to = 0 \/ to = p THEN [next |-> 0, steps |-> steps + 1]
       ELSE IF parent_differs(imgs[p].source, imgs[to].source)
            THEN [next |-> to, steps |-> steps + 1]
       ELSE get_next_parent_scan(imgs, lp, forward, p, to, steps + 1)

\* get_next_parent(img, loop, forward) for the entry at position p
get_next_parent(imgs, lp, p, forward) ==
    get_next_parent_scan(imgs, lp, forward, p, p, 0)

\* imglist_next_dir(img), imglist_prev_dir(img): a position, 0 for NULL
imglist_next_dir(imgs, lp, p) == get_next_parent(imgs, lp, p, TRUE).next

imglist_prev_dir(imgs, lp, p) == get_next_parent(imgs, lp, p, FALSE).next

(***************************************************************************)
(* The gallery: gallery.c.  Threads are the UI thread and the loader       *)
(* threads pthread_create starts.                                          *)
(***************************************************************************)
Workers == 1..MaxWorkers

UI == <<"ui">>

Ids(imgs) == {imgs[p].id : p \in 1..Len(imgs)}

\* a loader thread that was never created
WorkerNone ==
    [pc |-> "none", queue |-> <<>>, i |-> 0, it_thumb |-> FALSE,
     removed |-> FALSE, recreated |-> FALSE, committed |-> FALSE,
     freed |-> <<>>]

\* the UI thread before the program starts
UiBoot ==
    [pc |-> "boot", ret |-> <<>>, queue |-> <<>>, ev |-> [type |-> "none"],
     img |-> NULL]

\* no gallery: the list is used on its own
GalleryOff ==
    /\ recursive = FALSE
    /\ lock = {}
    /\ loader_active = FALSE
    /\ loader_tid = 0
    /\ current = NULL
    /\ ui = [UiBoot EXCEPT !.pc = "off"]
    /\ workers = [w \in Workers |-> WorkerNone]
    /\ ub = FALSE

\* image_has_thumb(img) for the entry at position p, FALSE for NULL
image_has_thumb(imgs, p) == p # 0 /\ imgs[p].thumb

\* image_thumb_create(img, ...) for the entry at position p: the thumbnail is
\* made from the decoded frames, and there is none without frames or for NULL
image_thumb_create(imgs, p) ==
    IF p # 0 /\ imgs[p].frames
    THEN [images |-> [imgs EXCEPT ![p].thumb = TRUE], ok |-> TRUE]
    ELSE [images |-> imgs, ok |-> FALSE]

\* layout_select(&ctx.layout, dir): the address of the entry selected, NULL
\* when the selection cannot move that way
layout_select(imgs, cur, dir) ==
    LET p == PosOf(imgs, cur)
    IN CASE dir = "right" -> IdAt(imgs, list_next(imgs, p))
         [] dir = "left" -> IdAt(imgs, list_prev(imgs, p))
         [] dir = "first" -> IF p # 1 THEN imgs[1].id ELSE NULL
         [] dir = "last" -> IF p # Len(imgs) THEN imgs[Len(imgs)].id ELSE NULL

Directions == {"first", "last", "left", "right"}

\* layout_ldqueue(&ctx.layout, ctx.cache): a new list with one image for
\* each entry that has no thumbnail; the sources of its images
RECURSIVE layout_ldqueue(_)
layout_ldqueue(imgs) ==
    IF imgs = <<>> THEN <<>>
    ELSE IF Head(imgs).thumb THEN layout_ldqueue(Tail(imgs))
    ELSE <<Head(imgs).source>> \o layout_ldqueue(Tail(imgs))

\* skip_current(remove) with the list lock held: the list, the selection and
\* whether app_exit was called
skip_current(imgs, cur, remove) ==
    LET right == layout_select(imgs, cur, "right")
        left == layout_select(imgs, cur, "left")
        sel == IF right # NULL THEN right ELSE left
    IN IF sel # NULL
       THEN [images |-> IF remove THEN imglist_remove(imgs, PosOf(imgs, cur))
                                  ELSE imgs,
             current |-> sel, exit |-> FALSE]
       ELSE [images |-> imgs, current |-> cur, exit |-> TRUE]

\* The gallery's on_imglist(image, event) for the entry with address img,
\* called with the list locked: the selection after it, whether app_exit
\* was called, and whether reload() is called
on_imglist(imgs, cur, img, event) ==
    IF event = "remove" /\ img = cur
    THEN LET r == skip_current(imgs, cur, FALSE)
         IN [current |-> r.current, exit |-> r.exit, reload |-> FALSE]
    ELSE [current |-> cur, exit |-> FALSE,
          reload |-> event = "modify" /\ img = cur]

\* app_on_imglist(image, event): the application notifies the active mode,
\* the gallery, by calling the handler gallery_init has registered
app_on_imglist(imgs, cur, img, event) == on_imglist(imgs, cur, img, event)

\* pstore_load(img): path_len is what pstore_path returns, st_image and
\* st_thumb are what stat gives for the source and for the stored thumbnail
\* (<<>> when stat fails, else <<st_mtim>>), and thumb_loads is what
\* image_thumb_load returns for the stored file
pstore_load(path_len, st_image, st_thumb, thumb_loads) ==
    IF path_len = 0 THEN FALSE
    ELSE IF st_image = <<>> \/ st_thumb = <<>>
            \/ st_image[1].tv_sec > st_thumb[1].tv_sec
         THEN FALSE
    ELSE thumb_loads

\* a check that makes the thumbnail from the frames without app_redraw
loader_precheck_noredraw(imgs, source) ==
    LET origin == imglist_find(imgs, source)
        made == image_thumb_create(imgs, IF image_has_thumb(imgs, origin)
                                         THEN 0 ELSE origin)
    IN [images |-> made.images,
        load |-> origin # 0 /\ ~image_has_thumb(imgs, origin) /\ ~made.ok,
        redraw |-> FALSE]

\* a check that has the image loaded when the list has no entry with its
\* source
loader_precheck_nofind(imgs, source) ==
    LET origin == imglist_find(imgs, source)
        made == image_thumb_create(imgs, IF image_has_thumb(imgs, origin)
                                         THEN 0 ELSE origin)
    IN [images |-> made.images,
        load |-> ~image_has_thumb(imgs, origin) /\ ~made.ok,
        redraw |-> made.ok]

\* The loader's check of an image of its queue (gallery.c 193-203): the
\* list, whether the image is to be loaded, whether app_redraw was called.
loader_precheck(imgs, source) ==
    LET origin == imglist_find(imgs, source)
        made == image_thumb_create(imgs, IF image_has_thumb(imgs, origin)
                                         THEN 0 ELSE origin)
    IN [images |-> made.images,
        load |-> origin # 0 /\ ~image_has_thumb(imgs, origin) /\ ~made.ok,
        redraw |-> made.ok]

\* a commit that puts the loaded image into the list when no entry has its
\* source
loader_commit_resurrect(imgs, source, has_thumb) ==
    LET origin == imglist_find(imgs, source)
    IN IF origin = 0
       THEN Append(imgs, [id |-> NewId(imgs), source |-> source,
                          index |-> Len(imgs) + 1, file_size |-> 0,
                          file_time |-> 0, thumb |-> has_thumb, frames |-> FALSE])
       ELSE IF has_thumb THEN [imgs EXCEPT ![origin].thumb = TRUE]
       ELSE reindex(list_remove(imgs, origin))

\* a commit that leaves the entry of an image that failed to load in the list
loader_commit_keep(imgs, source, has_thumb) ==
    LET origin == imglist_find(imgs, source)
    IN IF origin = 0 THEN imgs
       ELSE IF has_thumb THEN [imgs EXCEPT ![origin].thumb = TRUE]
       ELSE imgs

\* The loader's commit of a loaded image (gallery.c 234-241): the list after
\* it.  has_thumb is image_has_thumb(it).
loader_commit(imgs, source, has_thumb) ==
    LET origin == imglist_find(imgs, source)
    IN IF origin = 0 THEN imgs
       ELSE IF has_thumb THEN [imgs EXCEPT ![origin].thumb = TRUE]
       ELSE imglist_remove(imgs, origin)

\* the loader threads' notes of an entry that left the list while its image
\* was being loaded, and of one that was added again
InFlight(wk) == wk.pc \in {"load", "commit"}

NoteRemoved(ws, source) ==
    [w \in Workers |->
        IF InFlight(ws[w]) /\ ws[w].queue[ws[w].i] = source
        THEN [ws[w] EXCEPT !.removed = TRUE]
        ELSE ws[w]]

NoteAdded(ws, sources) ==
    [w \in Workers |->
        IF InFlight(ws[w]) /\ ws[w].removed /\ ws[w].queue[ws[w].i] \in sources
        THEN [ws[w] EXCEPT !.recreated = TRUE]
        ELSE ws[w]]

\* add_dir(dir), names being the regular files readdir and stat find in it:
\* the list, ctx.size and the address of the last entry added (NULL if none)
RECURSIVE add_dir_entries(_, _, _, _, _, _)
add_dir_entries(imgs, sz, ord, rev, names, st) ==
    IF names = <<>> THEN [images |-> imgs, size |-> sz, entry |-> NULL]
    ELSE LET Rest(img) ==
                 LET rest == add_dir_entries(img.images, img.size, ord, rev,
                                             Tail(names), st)
                 IN IF rest.entry = NULL THEN [rest EXCEPT !.entry = img.entry]
                    ELSE rest
         IN CHOOSE r \in {Rest(img) : img \in
                             {add_entry(imgs, sz, ord, rev, Head(names), st, 0)}} :
                TRUE

\* s starts with prefix: strncmp(prefix, s, strlen(prefix)) == 0
HasPrefix(prefix, s) ==
    Len(s) >= Len(prefix) /\ SubSeq(s, 1, Len(prefix)) = prefix

\* add_dir, "get the first image in the directory": from position p back
\* while the entry before is of the directory
RECURSIVE first_of_dir(_, _, _)
first_of_dir(imgs, dir, p) ==
    IF p > 1 /\ HasPrefix(dir, imgs[p - 1].source)
    THEN first_of_dir(imgs, dir, p - 1)
    ELSE p

add_dir(imgs, sz, ord, rev, dir, names, st) ==
    LET First(r) ==
            IF r.entry = NULL THEN r
            ELSE [r EXCEPT !.entry =
                    r.images[first_of_dir(r.images, dir, PosOf(r.images, r.entry))].id]
    IN CHOOSE img \in {First(r) : r \in
                          {add_dir_entries(imgs, sz, ord, rev, names, st)}} : TRUE

\* pthread_join(ctx.loader_tid, NULL) returns once that thread has returned
pthread_join_nowait(ws, tid) == TRUE

pthread_join(ws, tid) == ws[tid].pc = "done"

\* load_sources(sources, num), num > 1, every source a regular file that
\* stat finds: the list, ctx.size and the first entry add_source returned
RECURSIVE load_sources(_, _, _, _, _, _)
load_sources(imgs, sz, ord, rev, sources, st) ==
    IF sources = <<>> THEN [images |-> imgs, size |-> sz, entry |-> NULL]
    ELSE LET Rest(added) ==
                 LET rest == load_sources(added.images, added.size, ord, rev,
                                          Tail(sources), st)
                 IN IF added.entry # NULL THEN [rest EXCEPT !.entry = added.entry]
                    ELSE rest
         IN CHOOSE r \in {Rest(added) : added \in
                             {add_entry(imgs, sz, ord, rev, Head(sources), st, 0)}} :
                TRUE

(***************************************************************************)
(* Spec: the gallery at work.  The UI thread loads the list, activates the *)
(* gallery and then handles user actions, redraws, resizes and file system *)
(* events one at a time; the loader threads it starts run beside it.       *)
(* Every access to ctx.loader_active outside the list lock is a step of    *)
(* its own, so that the reads and writes of the two threads are taken in   *)
(* every order.                                                            *)
(***************************************************************************)
GOrders == {"none", "alpha"}

GFiles == {s_a1, s_b1}

\* the directory /b/ and the regular files readdir finds in it
s_bdir == <<47, 98, 47>>

GDirFiles == <<s_b1>>

GStat == <<[st_size |-> 1, st_mtime |-> 1]>>

\* the sources swayimg is started with
GBatches == {<<s_b1, s_a1, s_b1>>, <<s_a1>>}

FsEvents == {"create", "modify", "remove"}

NoEvent == [type |-> "none"]

Init ==
    /\ images = <<>>
    /\ size = 0
    /\ order \in GOrders
    /\ reverse = FALSE
    /\ loop = FALSE
    /\ last = [op |-> "init"]
    /\ recursive = TRUE
    /\ lock = {}
    /\ loader_active = FALSE
    /\ loader_tid = 0
    /\ current = NULL
    /\ ui = UiBoot
    /\ workers = [w \in Workers |-> WorkerNone]
    /\ ub = FALSE

\* ctx.layout.current points to an entry that imglist_remove has freed
Dangling == current \notin Ids(images)

\* the use of a freed entry ends the modelled behaviour: the program may
\* crash or corrupt its heap.  Where the code only reads the freed entry,
\* the handlers below also go on with what the stale memory can hold.
UseAfterFree ==
    /\ ub' = TRUE
    /\ UNCHANGED <<images, size, order, reverse, loop, last, recursive, lock,
                   loader_active, loader_tid, current, ui, workers>>

\* the UI thread returns from a call to where it was called from
UiReturn(u) == [u EXCEPT !.pc = Head(u.ret), !.ret = Tail(u.ret)]

\* the UI thread calls loader_restart(queue); queue <<>> is NULL
UiCall(u, queue, ret) == [u EXCEPT !.pc = "rs_check", !.queue = queue, !.ret = ret]

\* imglist_load(sources, num), then the application activates the gallery
\* with the image returned
UiLoad ==
    /\ ~ub /\ ui.pc = "boot"
    /\ \E sources \in GBatches :
         \E r \in {load_sources(images, size, order, reverse, sources, GStat)} :
            /\ images' = reindex(r.images)
            /\ size' = Len(r.images)
            /\ ui' = [ui EXCEPT !.pc = "activate", !.img = r.entry]
    /\ UNCHANGED <<last, order, reverse, loop, recursive, lock, loader_active,
                   loader_tid, current, workers, ub>>

\* on_activate(image): image was shown by the viewer, which may have
\* decoded its frames
UiActivate ==
    /\ ~ub /\ ui.pc = "activate" /\ lock = {}
    /\ IF ui.img \notin Ids(images)
       THEN \/ UseAfterFree
            \/ /\ current' = ui.img
               /\ ui' = [ui EXCEPT !.pc = "idle", !.img = NULL]
               /\ UNCHANGED <<images, size, order, reverse, loop, last,
                              recursive, lock, loader_active, loader_tid,
                              workers, ub>>
       ELSE /\ \E decoded \in BOOLEAN :
                 LET p == PosOf(images, ui.img)
                     viewed == [images EXCEPT ![p].frames = @ \/ decoded]
                 IN images' = image_thumb_create(viewed,
                                  IF image_has_thumb(viewed, p) THEN 0 ELSE p).images
            /\ current' = ui.img
            /\ ui' = [ui EXCEPT !.pc = "idle", !.img = NULL]
            /\ UNCHANGED <<size, order, reverse, loop, last, recursive, lock,
                           loader_active, loader_tid, workers, ub>>

\* on_deactivate() as the application switches to the viewer, and then back
UiSwitchMode ==
    /\ ~ub /\ ui.pc = "idle"
    /\ ui' = [UiCall(ui, <<>>, <<"activate">>) EXCEPT !.img = current]
    /\ UNCHANGED <<images, size, order, reverse, loop, last, recursive, lock,
                   loader_active, loader_tid, current, workers, ub>>

\* select_next(direction)
UiSelectNext ==
    /\ ~ub /\ ui.pc = "idle" /\ lock = {}
    /\ \/ Dangling /\ UseAfterFree
       \/ \E sel \in IF Dangling THEN Ids(images) \cup {NULL}
                      ELSE {layout_select(images, current, dir) : dir \in Directions} :
            LET load == IF sel # NULL THEN layout_ldqueue(images) ELSE <<>>
            IN /\ current' = IF sel # NULL THEN sel ELSE current
               /\ ui' = IF load # <<>> THEN UiCall(ui, load, <<"idle">>) ELSE ui
               /\ UNCHANGED <<images, size, order, reverse, loop, last,
                              recursive, lock, loader_active, loader_tid,
                              workers, ub>>

\* on_action, action_skip_file: skip_current(true) with the list locked
UiSkipFile ==
    /\ ~ub /\ ui.pc = "idle" /\ lock = {}
    /\ IF Dangling THEN UseAfterFree
       ELSE LET r == skip_current(images, current, TRUE)
                skip == images[PosOf(images, current)].source
            IN /\ images' = r.images
               /\ size' = IF r.exit THEN size ELSE Len(r.images)
               /\ current' = r.current
               /\ workers' = IF r.exit THEN workers
                             ELSE NoteRemoved(workers, skip)
               /\ ui' = IF r.exit THEN UiCall(ui, <<>>, <<"halted">>) ELSE ui
               /\ UNCHANGED <<order, reverse, loop, last, recursive, lock,
                              loader_active, loader_tid, ub>>

\* reload(): loader_restart(NULL), then clear_thumbnails(true)
UiReload ==
    /\ ~ub /\ ui.pc = "idle"
    /\ ui' = UiCall(ui, <<>>, <<"clear", "idle">>)
    /\ UNCHANGED <<images, size, order, reverse, loop, last, recursive, lock,
                   loader_active, loader_tid, current, workers, ub>>

\* clear_thumbnails(true): imglist_lock, every thumbnail freed, unlock
UiClearThumbnails ==
    /\ ~ub /\ ui.pc = "clear" /\ lock = {}
    /\ images' = [p \in 1..Len(images) |-> [images[p] EXCEPT !.thumb = FALSE]]
    /\ ui' = UiReturn(ui)
    /\ UNCHANGED <<size, order, reverse, loop, last, recursive, lock,
                   loader_active, loader_tid, current, workers, ub>>

\* on_resize(): loader_restart(NULL), then layout_resize with the list locked
UiResize ==
    /\ ~ub /\ ui.pc = "idle"
    /\ ui' = UiCall(ui, <<>>, <<"resize">>)
    /\ UNCHANGED <<images, size, order, reverse, loop, last, recursive, lock,
                   loader_active, loader_tid, current, workers, ub>>

UiLayoutResize ==
    /\ ~ub /\ ui.pc = "resize" /\ lock = {}
    /\ \/ Dangling /\ UseAfterFree
       \/ /\ ui' = [ui EXCEPT !.pc = "idle"]
          /\ UNCHANGED <<images, size, order, reverse, loop, last, recursive,
                         lock, loader_active, loader_tid, current, workers, ub>>

\* draw_thumbnails that makes the queue without the test of
\* ctx.loader_active
UiRedraw_always ==
    /\ ~ub /\ ui.pc = "idle" /\ lock = {}
    /\ \/ Dangling /\ UseAfterFree
       \/ LET all_loaded == \A p \in 1..Len(images) : image_has_thumb(images, p)
              load == IF ~all_loaded THEN layout_ldqueue(images) ELSE <<>>
          IN /\ ui' = IF load # <<>> THEN UiCall(ui, load, <<"idle">>) ELSE ui
             /\ last' = IF load # <<>> THEN [op |-> "draw_thumbnails"] ELSE last
             /\ UNCHANGED <<images, size, order, reverse, loop, recursive,
                            lock, loader_active, loader_tid, current, workers,
                            ub>>

\* on_redraw: draw_thumbnails; last tells that the call of loader_restart
\* under way is the one of draw_thumbnails
UiRedraw ==
    /\ ~ub /\ ui.pc = "idle" /\ lock = {}
    /\ \/ Dangling /\ UseAfterFree
       \/ LET all_loaded == \A p \in 1..Len(images) : image_has_thumb(images, p)
              load == IF ~all_loaded /\ ~loader_active
                      THEN layout_ldqueue(images) ELSE <<>>
          IN /\ ui' = IF load # <<>> THEN UiCall(ui, load, <<"idle">>) ELSE ui
             /\ last' = IF load # <<>> THEN [op |-> "draw_thumbnails"] ELSE last
             /\ UNCHANGED <<images, size, order, reverse, loop, recursive,
                            lock, loader_active, loader_tid, current, workers,
                            ub>>

\* what on_fsevent has told the observers: nothing when it has no entry to
\* tell them of (img is NULL), else whether the entry it passed to
\* app_on_imglist was in the list imgs at that time
Notified(imgs, img) ==
    IF img = NULL THEN "none"
    ELSE IF img \in Ids(imgs) THEN "member"
    ELSE "gone"

\* on_fsevent, case fsevent_remove, with imglist_remove called before
\* app_on_imglist
FsRemoveFile_removefirst(path) ==
    LET found == imglist_find(images, path)
        img == IdAt(images, found)
        removed == IF found # 0 THEN imglist_remove(images, found) ELSE images
        note == IF found # 0
                THEN app_on_imglist(removed, current, img, "remove")
                ELSE [current |-> current, exit |-> FALSE, reload |-> FALSE]
    IN /\ images' = removed
       /\ size' = IF found # 0 THEN Len(images) - 1 ELSE size
       /\ current' = note.current
       /\ workers' = IF found # 0 THEN NoteRemoved(workers, path) ELSE workers
       /\ ui' = [ui EXCEPT !.pc = "fs_finish",
                           !.ev = [type |-> "remove", path |-> path,
                                   dup |-> FALSE, exit |-> note.exit,
                                   notified |-> Notified(removed, img)]]

\* on_fsevent(type, path) from imglist_lock() to the call of reload() in
\* the observer, or else to the end of the switch
\* on_fsevent, case fsevent_create for a directory, without the test of
\* ctx.recursive
FsCreateDir_always(path) ==
    \E r \in {add_dir(images, size, order, reverse, path, GDirFiles, GStat)} :
       /\ images' = r.images
       /\ size' = r.size
       /\ workers' = NoteAdded(workers, {r.images[p].source : p \in 1..Len(r.images)}
                                        \ {images[p].source : p \in 1..Len(images)})
       /\ ui' = [ui EXCEPT !.pc = "fs_finish",
                           !.ev = [type |-> "create", path |-> path,
                                   dup |-> FALSE, exit |-> FALSE,
                                   notified |-> Notified(r.images, r.entry)]]
       /\ current' = IF r.entry # NULL
                     THEN app_on_imglist(r.images, current, r.entry, "create").current
                     ELSE current

FsCreateDir(path) ==
    \E r \in {IF recursive
                THEN add_dir(images, size, order, reverse, path, GDirFiles, GStat)
                ELSE [images |-> images, size |-> size, entry |-> NULL]} :
       /\ images' = r.images
       /\ size' = r.size
       /\ workers' = NoteAdded(workers, {r.images[p].source : p \in 1..Len(r.images)}
                                        \ {images[p].source : p \in 1..Len(images)})
       /\ ui' = [ui EXCEPT !.pc = "fs_finish",
                           !.ev = [type |-> "create", path |-> path,
                                   dup |-> FALSE, exit |-> FALSE,
                                   notified |-> Notified(r.images, r.entry)]]
       /\ current' = IF r.entry # NULL
                     THEN app_on_imglist(r.images, current, r.entry, "create").current
                     ELSE current

FsCreateFile(path, regular) ==
    \E found \in {imglist_find(images, path)},
       r \in {IF regular
               THEN add_entry(images, size, order, reverse, path, GStat, 0)
               ELSE [images |-> images, size |-> size, entry |-> NULL]} :
       /\ images' = r.images
       /\ size' = r.size
       /\ workers' = IF regular /\ found = 0 THEN NoteAdded(workers, {path})
                     ELSE workers
       /\ ui' = [ui EXCEPT !.pc = "fs_finish",
                           !.ev = [type |-> "create", path |-> path,
                                   dup |-> regular /\ found # 0, exit |-> FALSE,
                                   notified |-> Notified(r.images, r.entry)]]
       /\ current' = IF r.entry # NULL
                     THEN app_on_imglist(r.images, current, r.entry, "create").current
                     ELSE current

FsRemoveFile(path) ==
    LET found == imglist_find(images, path)
        img == IdAt(images, found)
        note == IF found # 0
                THEN app_on_imglist(images, current, images[found].id, "remove")
                ELSE [current |-> current, exit |-> FALSE, reload |-> FALSE]
    IN /\ images' = IF found # 0 THEN imglist_remove(images, found) ELSE images
       /\ size' = IF found # 0 THEN Len(images) - 1 ELSE size
       /\ current' = note.current
       /\ workers' = IF found # 0 THEN NoteRemoved(workers, path) ELSE workers
       /\ ui' = [ui EXCEPT !.pc = "fs_finish",
                           !.ev = [type |-> "remove", path |-> path,
                                   dup |-> FALSE, exit |-> note.exit,
                                   notified |-> Notified(images, img)]]

\* on_fsevent, case fsevent_modify, taking the modified file's entry out of
\* the list
FsModifyFile_drop(path) ==
    LET found == imglist_find(images, path)
    IN /\ images' = IF found # 0 THEN imglist_remove(images, found) ELSE images
       /\ size' = IF found # 0 THEN Len(images) - 1 ELSE size
       /\ ui' = [ui EXCEPT !.pc = "fs_finish",
                           !.ev = [type |-> "modify", path |-> path,
                                   dup |-> FALSE, exit |-> FALSE,
                                   notified |-> Notified(images, IdAt(images, found))]]
       /\ UNCHANGED <<current, workers>>

FsModifyFile(path) ==
    LET found == imglist_find(images, path)
        ev == [type |-> "modify", path |-> path, dup |-> FALSE, exit |-> FALSE,
               notified |-> Notified(images, IdAt(images, found))]
    IN /\ ui' = IF found # 0
                   /\ app_on_imglist(images, current, images[found].id, "modify").reload
                THEN [UiCall(ui, <<>>, <<"clear", "fs_finish">>) EXCEPT !.ev = ev]
                ELSE [ui EXCEPT !.pc = "fs_finish", !.ev = ev]
       /\ UNCHANGED <<images, size, current, workers>>

FsIgnored(type, path) ==
    /\ ui' = [ui EXCEPT !.pc = "fs_finish",
                        !.ev = [type |-> type, path |-> path,
                                dup |-> FALSE, exit |-> FALSE,
                                notified |-> "none"]]
    /\ UNCHANGED <<images, size, current, workers>>

UiFsEvent ==
    /\ ~ub /\ ui.pc = "idle" /\ lock = {}
    /\ lock' = {UI}
    /\ \E type \in FsEvents, path \in GFiles \cup {s_bdir} :
         LET is_dir == path[Len(path)] = 47
         IN CASE type = "create" /\ is_dir -> FsCreateDir(path)
              [] type = "create" /\ ~is_dir ->
                    \E regular \in BOOLEAN : FsCreateFile(path, regular)
              [] type = "remove" /\ ~is_dir -> FsRemoveFile(path)
              [] type = "modify" /\ ~is_dir -> FsModifyFile(path)
              [] OTHER -> FsIgnored(type, path)
    /\ UNCHANGED <<last, order, reverse, loop, recursive, loader_active, loader_tid, ub>>

\* the end of on_fsevent: reindex() and imglist_unlock()
UiFsFinish ==
    /\ ~ub /\ ui.pc = "fs_finish"
    /\ images' = reindex(images)
    /\ size' = Len(images)
    /\ lock' = lock \ {UI}
    /\ ui' = IF ui.ev.exit
             THEN [UiCall(ui, <<>>, <<"halted">>) EXCEPT !.ev = NoEvent]
             ELSE [ui EXCEPT !.pc = "idle", !.ev = NoEvent]
    /\ UNCHANGED <<order, reverse, loop, last, recursive, loader_active,
                   loader_tid, current, workers, ub>>

\* loader_restart(queue), "if (ctx.loader_active)"
UiRestartCheck ==
    /\ ~ub /\ ui.pc = "rs_check"
    /\ ui' = IF loader_active THEN [ui EXCEPT !.pc = "rs_cancel"]
             ELSE IF ui.queue # <<>> THEN [ui EXCEPT !.pc = "rs_start"]
             ELSE UiReturn(ui)
    /\ UNCHANGED <<images, size, order, reverse, loop, last, recursive, lock,
                   loader_active, loader_tid, current, workers, ub>>

\* loader_restart, "ctx.loader_active = false"
UiRestartCancel ==
    /\ ~ub /\ ui.pc = "rs_cancel"
    /\ loader_active' = FALSE
    /\ ui' = [ui EXCEPT !.pc = "rs_join"]
    /\ UNCHANGED <<images, size, order, reverse, loop, last, recursive, lock,
                   loader_tid, current, workers, ub>>

\* loader_restart, "pthread_join(ctx.loader_tid, NULL)"
UiRestartJoin ==
    /\ ~ub /\ ui.pc = "rs_join"
    /\ pthread_join(workers, loader_tid)
    /\ ui' = IF ui.queue # <<>> THEN [ui EXCEPT !.pc = "rs_start"]
             ELSE UiReturn(ui)
    /\ UNCHANGED <<images, size, order, reverse, loop, last, recursive, lock,
                   loader_active, loader_tid, current, workers, ub>>

\* loader_restart, "ctx.loader_active = true" and pthread_create: the new
\* thread is the first one that is not running
UiRestartStart ==
    /\ ~ub /\ ui.pc = "rs_start"
    /\ \E w \in Workers :
         /\ workers[w].pc \in {"none", "done"}
         /\ \A v \in 1..(w - 1) : workers[v].pc \notin {"none", "done"}
         /\ workers' = [workers EXCEPT ![w] =
                           [WorkerNone EXCEPT !.pc = "check", !.queue = ui.queue,
                                              !.i = 1]]
         /\ loader_tid' = w
    /\ loader_active' = TRUE
    /\ ui' = [UiReturn(ui) EXCEPT !.queue = <<>>]
    /\ last' = [op |-> "init"]
    /\ UNCHANGED <<images, size, order, reverse, loop, recursive, lock,
                   current, ub>>

\* the loader thread's notes of the image it worked on last are dropped
Forget(wk) ==
    [wk EXCEPT !.it_thumb = FALSE, !.removed = FALSE, !.recreated = FALSE,
               !.committed = FALSE]

\* the loader thread goes on to the next image of its queue
NextItem(wk) ==
    IF wk.i < Len(wk.queue)
    THEN [wk EXCEPT !.pc = "check", !.i = @ + 1]
    ELSE [wk EXCEPT !.pc = "free"]

\* loader_thread, "check if thumbnail is already loaded": lock to unlock
WCheck(w) ==
    /\ ~ub /\ workers[w].pc = "check" /\ lock = {}
    /\ LET wk == workers[w]
           r == loader_precheck(images, wk.queue[wk.i])
       IN IF ~loader_active
          THEN /\ workers' = [workers EXCEPT ![w] = [Forget(wk) EXCEPT !.pc = "free"]]
               /\ UNCHANGED images
          ELSE /\ images' = r.images
               /\ workers' = [workers EXCEPT ![w] =
                                 IF r.load THEN [Forget(wk) EXCEPT !.pc = "load"]
                                 ELSE NextItem(Forget(wk))]
    /\ UNCHANGED <<size, order, reverse, loop, last, recursive, lock,
                   loader_active, loader_tid, current, ui, ub>>

\* loader_thread, "load thumbnail": pstore_load, or image_load and
\* image_thumb_create, leave the queue's image with a thumbnail or without
WLoad(w) ==
    /\ ~ub /\ workers[w].pc = "load"
    /\ \E has_thumb \in BOOLEAN :
         workers' = [workers EXCEPT ![w].pc = "commit", ![w].it_thumb = has_thumb]
    /\ UNCHANGED <<images, size, order, reverse, loop, last, recursive, lock,
                   loader_active, loader_tid, current, ui, ub>>

\* "put thumbnail to image list" without the test of ctx.loader_active
WCommit_nocancel(w) ==
    /\ ~ub /\ workers[w].pc = "commit" /\ lock = {}
    /\ LET wk == workers[w]
           source == wk.queue[wk.i]
           origin == imglist_find(images, source)
           failed == origin # 0 /\ ~wk.it_thumb
       IN /\ images' = loader_commit(images, source, wk.it_thumb)
          /\ size' = IF failed THEN Len(images) - 1 ELSE size
          /\ workers' = [IF failed THEN NoteRemoved(workers, source)
                         ELSE workers EXCEPT ![w] =
                            NextItem([wk EXCEPT !.committed = TRUE])]
    /\ UNCHANGED <<order, reverse, loop, last, recursive, lock, loader_active,
                   loader_tid, current, ui, ub>>

\* "put thumbnail to image list" without imglist_lock and imglist_unlock
WCommit_nolock(w) ==
    /\ ~ub /\ workers[w].pc = "commit"
    /\ LET wk == workers[w]
           source == wk.queue[wk.i]
           origin == imglist_find(images, source)
           failed == origin # 0 /\ ~wk.it_thumb
       IN IF ~loader_active
          THEN /\ workers' = [workers EXCEPT ![w] = [Forget(wk) EXCEPT !.pc = "free"]]
               /\ UNCHANGED <<images, size>>
          ELSE /\ images' = loader_commit(images, source, wk.it_thumb)
               /\ size' = IF failed THEN Len(images) - 1 ELSE size
               /\ workers' = [IF failed THEN NoteRemoved(workers, source)
                              ELSE workers EXCEPT ![w] =
                                 NextItem([wk EXCEPT !.committed = TRUE])]
    /\ UNCHANGED <<order, reverse, loop, last, recursive, lock, loader_active,
                   loader_tid, current, ui, ub>>

\* loader_thread, "put thumbnail to image list": lock to unlock
WCommit(w) ==
    /\ ~ub /\ workers[w].pc = "commit" /\ lock = {}
    /\ LET wk == workers[w]
           source == wk.queue[wk.i]
           origin == imglist_find(images, source)
           failed == origin # 0 /\ ~wk.it_thumb
       IN IF ~loader_active
          THEN /\ workers' = [workers EXCEPT ![w] = [Forget(wk) EXCEPT !.pc = "free"]]
               /\ UNCHANGED <<images, size>>
          ELSE /\ images' = loader_commit(images, source, wk.it_thumb)
               /\ size' = IF failed THEN Len(images) - 1 ELSE size
               /\ workers' = [IF failed THEN NoteRemoved(workers, source)
                              ELSE workers EXCEPT ![w] =
                                 NextItem([wk EXCEPT !.committed = TRUE])]
    /\ UNCHANGED <<order, reverse, loop, last, recursive, lock, loader_active,
                   loader_tid, current, ui, ub>>

\* loader_thread, "free the queue" and "if (ctx.loader_active)"
WFree(w) ==
    /\ ~ub /\ workers[w].pc = "free"
    /\ workers' = [workers EXCEPT ![w] =
                      [WorkerNone EXCEPT !.pc = IF loader_active THEN "evict"
                                                ELSE "exit"]]
    /\ UNCHANGED <<images, size, order, reverse, loop, last, recursive, lock,
                   loader_active, loader_tid, current, ui, ub>>

\* clear_thumbnails(false) with a cache size set: layout_update works from
\* ctx.layout.current, layout_clear frees the thumbnails away from it
WEvict(w) ==
    /\ ~ub /\ workers[w].pc = "evict" /\ lock = {}
    /\ \/ Dangling /\ UseAfterFree
       \/ /\ \E over \in BOOLEAN :
                 images' = [p \in 1..Len(images) |->
                               IF over /\ images[p].id # current
                               THEN [images[p] EXCEPT !.thumb = FALSE]
                               ELSE images[p]]
          /\ workers' = [workers EXCEPT ![w].pc = "exit"]
          /\ UNCHANGED <<size, order, reverse, loop, last, recursive, lock,
                         loader_active, loader_tid, current, ui, ub>>

\* loader_thread, "ctx.loader_active = false; return NULL"
WExit(w) ==
    /\ ~ub /\ workers[w].pc = "exit"
    /\ loader_active' = FALSE
    /\ workers' = [workers EXCEPT ![w].pc = "done"]
    /\ UNCHANGED <<images, size, order, reverse, loop, last, recursive, lock,
                   loader_tid, current, ui, ub>>

Next ==
    \/ UiLoad
    \/ UiActivate
    \/ UiSwitchMode
    \/ UiSelectNext
    \/ UiSkipFile
    \/ UiReload
    \/ UiClearThumbnails
    \/ UiResize
    \/ UiLayoutResize
    \/ UiRedraw
    \/ UiFsEvent
    \/ UiFsFinish
    \/ UiRestartCheck
    \/ UiRestartCancel
    \/ UiRestartJoin
    \/ UiRestartStart
    \/ \E w \in Workers : WCheck(w)
    \/ \E w \in Workers : WLoad(w)
    \/ \E w \in Workers : WCommit(w)
    \/ \E w \in Workers : WFree(w)
    \/ \E w \in Workers : WEvict(w)
    \/ \E w \in Workers : WExit(w)

Spec == Init /\ [][Next]_vars

\* The scheduler runs every thread that can take a step: the UI thread inside
\* loader_restart, and each loader thread, whose image loads all end.
Fairness ==
    /\ WF_vars(UiRestartCheck)
    /\ WF_vars(UiRestartCancel)
    /\ WF_vars(UiRestartJoin)
    /\ WF_vars(UiRestartStart)
    /\ \A w \in Workers :
          /\ WF_vars(WCheck(w))
          /\ WF_vars(WLoad(w))
          /\ WF_vars(WCommit(w))
          /\ WF_vars(WFree(w))
          /\ WF_vars(WEvict(w))
          /\ WF_vars(WExit(w))

SpecFair == Spec /\ Fairness

\* SpecFs: the gallery at work with ctx.recursive as imglist_init reads it
\* from the configuration, set or not.
InitFs ==
    /\ images = <<>>
    /\ size = 0
    /\ order \in GOrders
    /\ reverse = FALSE
    /\ loop = FALSE
    /\ last = [op |-> "init"]
    /\ recursive \in BOOLEAN
    /\ lock = {}
    /\ loader_active = FALSE
    /\ loader_tid = 0
    /\ current = NULL
    /\ ui = UiBoot
    /\ workers = [w \in Workers |-> WorkerNone]
    /\ ub = FALSE

SpecFs == InitFs /\ [][Next]_vars

(***************************************************************************)
(* SpecLoader: loader_thread statement by statement, with every            *)
(* imglist_lock and imglist_unlock a step of its own.  The UI thread is    *)
(* what the loader thread sees of it: it locks the list, removes an entry  *)
(* or leaves the list alone, unlocks, and restarts the loader.             *)
(***************************************************************************)
\* the steps of loader_thread between the first imglist_unlock and the
\* second imglist_lock of an iteration
\* loader thread w as an owner of the list lock
Loader(w) == <<"loader", w>>

\* the address of image k of the queue of loader thread w: layout_ldqueue
\* creates the images of a queue, none of them is an entry of the list
QueueId(w, k) == 0 - (w * (MaxEntries + 1) + k)

LoadSteps == {"pstore_load", "image_load", "thumb_create", "pstore_save"}

\* the loader thread goes on to the next image of its queue: "list_for_each"
NextQueued(wk) ==
    IF wk.i < Len(wk.queue)
    THEN [wk EXCEPT !.pc = "lock1", !.i = @ + 1]
    ELSE [wk EXCEPT !.pc = "free"]

InitLoader ==
    /\ images \in {<<[id |-> 1, source |-> s_a1, index |-> 1, file_size |-> 1,
                      file_time |-> 1, thumb |-> t, frames |-> f],
                     [id |-> 2, source |-> s_b1, index |-> 2, file_size |-> 1,
                      file_time |-> 1, thumb |-> FALSE, frames |-> FALSE]>> :
                      t \in BOOLEAN, f \in BOOLEAN}
    /\ size = 2
    /\ order = "none"
    /\ reverse = FALSE
    /\ loop = FALSE
    /\ last = [op |-> "init"]
    /\ recursive = FALSE
    /\ lock = {}
    /\ loader_active = FALSE
    /\ loader_tid = 0
    /\ current = 2
    /\ ui \in {[pc |-> "out", thumb_pstore |-> b] : b \in BOOLEAN}
    /\ workers = [w \in Workers |-> WorkerNone]
    /\ ub = FALSE

\* imglist_lock() of the loader thread: in loader_thread, "check if
\* thumbnail is already loaded" and "put thumbnail to image list", and in
\* clear_thumbnails
LLock(w) ==
    /\ ~ub
    /\ workers[w].pc \in {"lock1", "lock2", "lock3"}
    /\ lock = {}
    /\ lock' = {Loader(w)}
    /\ workers' = [workers EXCEPT ![w].pc =
                      CASE workers[w].pc = "lock1" -> "check"
                        [] workers[w].pc = "lock2" -> "commit"
                        [] workers[w].pc = "lock3" -> "evict"]
    /\ UNCHANGED <<images, size, order, reverse, loop, last, recursive,
                   loader_active, loader_tid, current, ui, ub>>

\* loader_thread from "if (!ctx.loader_active)" after the first lock to the
\* first imglist_unlock
LCheck(w) ==
    /\ ~ub
    /\ workers[w].pc = "check"
    /\ \E r \in {loader_precheck(images, workers[w].queue[workers[w].i])} :
         IF ~loader_active
         THEN /\ workers' = [workers EXCEPT ![w].pc = "unlock_break"]
              /\ UNCHANGED <<images, last>>
         ELSE /\ images' = r.images
              /\ last' = IF r.redraw THEN [op |-> "app_redraw"]
                         ELSE IF r.images # images THEN [op |-> "change"]
                         ELSE last
              /\ workers' = [workers EXCEPT
                                ![w].pc = IF r.load THEN "unlock_load"
                                          ELSE "unlock_skip",
                                ![w].it_thumb = FALSE]
    /\ UNCHANGED <<size, order, reverse, loop, recursive, lock,
                   loader_active, loader_tid, current, ui, ub>>

\* imglist_unlock() of the loader thread without the unlock that precedes
\* the load of the thumbnail
LUnlock_keep(w) ==
    /\ ~ub
    /\ workers[w].pc \in {"unlock_break", "unlock_skip", "unlock_load",
                          "unlock_next", "unlock_exit"}
    /\ lock' = IF workers[w].pc = "unlock_load" THEN lock ELSE lock \ {Loader(w)}
    /\ workers' = [workers EXCEPT ![w] =
                      CASE @.pc = "unlock_break" -> [@ EXCEPT !.pc = "free"]
                        [] @.pc = "unlock_load" -> [@ EXCEPT !.pc = "pstore_load"]
                        [] @.pc = "unlock_exit" -> [@ EXCEPT !.pc = "exit"]
                        [] @.pc = "unlock_next" -> [@ EXCEPT !.pc = "redraw"]
                        [] OTHER -> NextQueued(@)]
    /\ UNCHANGED <<images, size, order, reverse, loop, last, recursive,
                   loader_active, loader_tid, current, ui, ub>>

\* imglist_unlock() of the loader thread, and where it goes from there:
\* "break", "continue", "load thumbnail", app_redraw() after the commit, or
\* the end of clear_thumbnails
LUnlock(w) ==
    /\ ~ub
    /\ workers[w].pc \in {"unlock_break", "unlock_skip", "unlock_load",
                          "unlock_next", "unlock_exit"}
    /\ lock' = lock \ {Loader(w)}
    /\ workers' = [workers EXCEPT ![w] =
                      CASE @.pc = "unlock_break" -> [@ EXCEPT !.pc = "free"]
                        [] @.pc = "unlock_load" -> [@ EXCEPT !.pc = "pstore_load"]
                        [] @.pc = "unlock_exit" -> [@ EXCEPT !.pc = "exit"]
                        [] @.pc = "unlock_next" -> [@ EXCEPT !.pc = "redraw"]
                        [] OTHER -> NextQueued(@)]
    /\ UNCHANGED <<images, size, order, reverse, loop, last, recursive,
                   loader_active, loader_tid, current, ui, ub>>

\* loader_thread, "load thumbnail", one call at a time: pstore_load when
\* ctx.thumb_pstore is set, image_load, image_thumb_create, and pstore_save
\* when ctx.thumb_pstore is set and the image is larger than the thumbnail
LLoadStep(w) ==
    /\ ~ub
    /\ workers[w].pc \in LoadSteps
    /\ \E ok \in BOOLEAN :
         workers' = [workers EXCEPT ![w] =
            CASE @.pc = "pstore_load" ->
                    IF ui.thumb_pstore /\ ok
                    THEN [@ EXCEPT !.pc = "lock2", !.it_thumb = TRUE]
                    ELSE [@ EXCEPT !.pc = "image_load"]
              [] @.pc = "image_load" ->
                    [@ EXCEPT !.pc = IF ok THEN "thumb_create" ELSE "lock2"]
              [] @.pc = "thumb_create" ->
                    [@ EXCEPT !.it_thumb = ok,
                              !.pc = IF ok /\ ui.thumb_pstore THEN "pstore_save"
                                     ELSE "lock2"]
              [] @.pc = "pstore_save" -> [@ EXCEPT !.pc = "lock2"]]
    /\ UNCHANGED <<images, size, order, reverse, loop, last, recursive, lock,
                   loader_active, loader_tid, current, ui, ub>>

\* loader_thread from "if (!ctx.loader_active)" after the second lock to the
\* second imglist_unlock
LCommit(w) ==
    /\ ~ub
    /\ workers[w].pc = "commit"
    /\ IF ~loader_active
       THEN /\ workers' = [workers EXCEPT ![w].pc = "unlock_break"]
            /\ UNCHANGED <<images, size, last>>
       ELSE \E r \in {loader_commit(images, workers[w].queue[workers[w].i],
                                    workers[w].it_thumb)} :
               /\ images' = r
               /\ size' = Len(r)
               /\ last' = IF r # images THEN [op |-> "change"] ELSE last
               /\ workers' = [workers EXCEPT ![w].pc = "unlock_next"]
    /\ UNCHANGED <<order, reverse, loop, recursive, lock, loader_active,
                   loader_tid, current, ui, ub>>

\* "free the queue" that frees the images from the one the loop was at
LFree_rest(w) ==
    /\ ~ub
    /\ workers[w].pc = "free"
    /\ workers' = [workers EXCEPT
                      ![w].pc = IF loader_active THEN "lock3" ELSE "exit",
                      ![w].freed = [k \in 1..Len(@) |->
                                      IF k >= workers[w].i THEN @[k] + 1 ELSE @[k]]]
    /\ UNCHANGED <<images, size, order, reverse, loop, last, recursive, lock,
                   loader_active, loader_tid, current, ui, ub>>

\* loader_thread, app_redraw() after the second imglist_unlock
LRedraw(w) ==
    /\ ~ub
    /\ workers[w].pc = "redraw"
    /\ last' = [op |-> "app_redraw"]
    /\ workers' = [workers EXCEPT ![w] = NextQueued(@)]
    /\ UNCHANGED <<images, size, order, reverse, loop, recursive, lock,
                   loader_active, loader_tid, current, ui, ub>>

\* loader_thread, "free the queue": image_free(it, IMGFREE_ALL) for every
\* image of the queue, and "if (ctx.loader_active)"
LFree(w) ==
    /\ ~ub
    /\ workers[w].pc = "free"
    /\ workers' = [workers EXCEPT
                      ![w].pc = IF loader_active THEN "lock3" ELSE "exit",
                      ![w].freed = [k \in 1..Len(@) |-> @[k] + 1]]
    /\ UNCHANGED <<images, size, order, reverse, loop, last, recursive, lock,
                   loader_active, loader_tid, current, ui, ub>>

\* clear_thumbnails(false) between its lock and its unlock: the thumbnails
\* away from the selection are freed when a cache size is set
LEvict(w) ==
    /\ ~ub
    /\ workers[w].pc = "evict"
    /\ \/ Dangling /\ UseAfterFree
       \/ /\ \E over \in BOOLEAN :
                 images' = [p \in 1..Len(images) |->
                               IF over /\ images[p].id # current
                               THEN [images[p] EXCEPT !.thumb = FALSE]
                               ELSE images[p]]
          /\ workers' = [workers EXCEPT ![w].pc = "unlock_exit"]
          /\ UNCHANGED <<size, order, reverse, loop, last, recursive, lock,
                         loader_active, loader_tid, current, ui, ub>>

\* loader_thread, "ctx.loader_active = false; return NULL"
LExit(w) ==
    /\ ~ub
    /\ workers[w].pc = "exit"
    /\ loader_active' = FALSE
    /\ workers' = [workers EXCEPT ![w].pc = "done"]
    /\ UNCHANGED <<images, size, order, reverse, loop, last, recursive, lock,
                   loader_tid, current, ui, ub>>

\* the UI thread locks the list
EnvLock ==
    /\ ~ub
    /\ ui.pc = "out" /\ lock = {}
    /\ lock' = {UI}
    /\ ui' = [ui EXCEPT !.pc = "in"]
    /\ UNCHANGED <<images, size, order, reverse, loop, last, recursive,
                   loader_active, loader_tid, current, workers, ub>>

\* the UI thread unlocks the list, after it has removed an entry other than
\* the selected one or left the list alone
EnvUnlock ==
    /\ ~ub
    /\ ui.pc = "in"
    /\ \E p \in 0..Len(images) :
         /\ p # 0 => images[p].id # current
         /\ images' = IF p = 0 THEN images ELSE imglist_remove(images, p)
         /\ size' = Len(images')
    /\ lock' = lock \ {UI}
    /\ ui' = [ui EXCEPT !.pc = "out"]
    /\ UNCHANGED <<order, reverse, loop, last, recursive, loader_active,
                   loader_tid, current, workers, ub>>

\* loader_restart, "ctx.loader_active = false" before pthread_join
EnvCancel ==
    /\ ~ub
    /\ ui.pc = "out" /\ loader_active
    /\ loader_active' = FALSE
    /\ ui' = [ui EXCEPT !.pc = "join"]
    /\ UNCHANGED <<images, size, order, reverse, loop, last, recursive, lock,
                   loader_tid, current, workers, ub>>

\* loader_restart from the return of pthread_join, or without a loader
\* thread to join: pthread_create for a queue that is not empty
EnvStart ==
    /\ ~ub
    /\ \/ ui.pc = "join" /\ pthread_join(workers, loader_tid)
       \/ ui.pc = "out" /\ ~loader_active
    /\ \E queue \in {layout_ldqueue(images)} :
         IF queue = <<>>
         THEN /\ ui.pc = "join"
              /\ UNCHANGED <<loader_active, loader_tid, workers>>
         ELSE \E w \in Workers :
                 /\ workers[w].pc \in {"none", "done"}
                 /\ \A v \in Workers : workers[v].pc \in {"none", "done"} \/ v = loader_tid
                 /\ w # loader_tid
                 /\ loader_active' = TRUE
                 /\ loader_tid' = w
                 /\ workers' = [workers EXCEPT
                                   ![w] = [WorkerNone EXCEPT
                                             !.pc = "lock1",
                                             !.queue = queue,
                                             !.i = 1,
                                             !.freed = [k \in 1..Len(queue) |-> 0]]]
    /\ ui' = [ui EXCEPT !.pc = "out"]
    /\ UNCHANGED <<images, size, order, reverse, loop, last, recursive, lock,
                   current, ub>>

NextLoader ==
    \/ EnvLock
    \/ EnvUnlock
    \/ EnvCancel
    \/ EnvStart
    \/ \E w \in Workers : LLock(w)
    \/ \E w \in Workers : LCheck(w)
    \/ \E w \in Workers : LUnlock(w)
    \/ \E w \in Workers : LLoadStep(w)
    \/ \E w \in Workers : LCommit(w)
    \/ \E w \in Workers : LRedraw(w)
    \/ \E w \in Workers : LFree(w)
    \/ \E w \in Workers : LEvict(w)
    \/ \E w \in Workers : LExit(w)

SpecLoader == InitLoader /\ [][NextLoader]_vars

\* a loader thread that has committed goes on to its imglist_unlock and its
\* app_redraw: neither call waits for another thread
SpecLoaderFair ==
    SpecLoader /\ \A w \in Workers : WF_vars(LUnlock(w)) /\ WF_vars(LRedraw(w))

(***************************************************************************)
(* SpecOrder: entries are added to the list under every order, as          *)
(* imglist_load and on_fsevent do it: add_entry, then reindex.             *)
(***************************************************************************)
\* the sources offered under each order
OrderSources(ord) ==
    CASE ord = "numeric" -> {s_img1, s_img2, s_img10, s_img01, s_zero, s_big}
      [] ord = "alpha" -> {s_a, s_b, s_c, s_B}
      [] OTHER -> {s_a, s_b, s_c}

\* what stat(2) reports of a file
StatValues == {1, 2}

OrderStats(ord) ==
    CASE ord = "numeric" -> {[st_size |-> 1, st_mtime |-> 1]}
      [] ord = "mtime" -> {[st_size |-> 1, st_mtime |-> v] : v \in StatValues}
      [] OTHER -> {[st_size |-> v, st_mtime |-> 1] : v \in StatValues}

\* rand() for ordered_position, as far as "rand() % ctx.size" tells values apart
RandValues(ord, sz) == IF ord = "random" THEN 0..sz ELSE {0}

InitOrder ==
    /\ images = <<>>
    /\ size = 0
    /\ order \in Orders
    /\ reverse \in BOOLEAN
    /\ loop = FALSE
    /\ last = [op |-> "init"]
    /\ GalleryOff

\* add_entry(source, &st) and the reindex that follows it
OrderInsert ==
    \E source \in OrderSources(order), st \in OrderStats(order),
       rnd \in RandValues(order, size) :
        LET r == add_entry(images, size, order, reverse, source, <<st>>, rnd)
        IN /\ Len(r.images) <= MaxEntries
           /\ images' = reindex(r.images)
           /\ size' = Len(r.images)
           /\ last' = [op |-> "add_entry", source |-> source, st |-> st,
                       dup |-> imglist_find(images, source) # 0,
                       ret |-> r.entry, size |-> r.size]
           /\ UNCHANGED <<order, reverse, loop, galleryvars>>

NextOrder == OrderInsert

SpecOrder == InitOrder /\ [][NextOrder]_vars

(***************************************************************************)
(* SpecNav: an unordered list is built, and the navigation functions of    *)
(* imglist.c are called on its entries.                                    *)
(***************************************************************************)
NavSources == {s_a1, s_b1, s_a2, s_b2, s_ab1}

NavStat == [st_size |-> 1, st_mtime |-> 1]

InitNav ==
    /\ images = <<>>
    /\ size = 0
    /\ order = "none"
    /\ reverse = FALSE
    /\ loop \in BOOLEAN
    /\ last = [op |-> "init"]
    /\ GalleryOff

\* add_entry(source, &st) and the reindex that follows it
NavInsert ==
    ~ub /\
    \E source \in NavSources :
        LET r == add_entry(images, size, order, reverse, source, <<NavStat>>, 0)
        IN /\ Len(r.images) <= MaxEntries
           /\ images' = reindex(r.images)
           /\ size' = Len(r.images)
           /\ last' = [op |-> "add_entry", source |-> source, ret |-> r.entry]
           /\ UNCHANGED <<order, reverse, loop, galleryvars>>

\* imglist_jump(img, distance)
NavJump ==
    ~ub /\
    \E p \in 1..Len(images), distance \in (0 - MaxJump)..MaxJump :
        /\ last' = [op |-> "imglist_jump", img |-> images[p].id,
                    distance |-> distance,
                    ret |-> IdAt(images, imglist_jump(images, p, distance))]
        /\ UNCHANGED <<listvars, galleryvars>>

\* imglist_distance(start, end)
NavDistance ==
    ~ub /\
    \E ps \in 1..Len(images), pe \in 1..Len(images) :
        /\ last' = [op |-> "imglist_distance", start |-> images[ps].id,
                    end |-> images[pe].id,
                    ret |-> imglist_distance(images, ps, pe)]
        /\ UNCHANGED <<listvars, galleryvars>>

\* imglist_next_dir(img) and imglist_prev_dir(img)
NavDir ==
    ~ub /\
    \E p \in 1..Len(images), forward \in BOOLEAN :
        /\ last' = [op |-> "imglist_dir", img |-> images[p].id,
                    forward |-> forward,
                    ret |-> IdAt(images, IF forward
                                         THEN imglist_next_dir(images, loop, p)
                                         ELSE imglist_prev_dir(images, loop, p)),
                    steps |-> get_next_parent(images, loop, p, forward).steps]
        /\ UNCHANGED <<listvars, galleryvars>>

\* imglist_rand(img): with a single entry in the list, "rand() % (ctx.size -
\* 1)" divides by zero
NavRand ==
    ~ub /\
    \E p \in 1..Len(images), rnd \in RandValues("random", size) :
        IF size < 2
        THEN /\ ub' = TRUE
             /\ UNCHANGED <<listvars, last, recursive, lock, loader_active,
                            loader_tid, current, ui, workers>>
        ELSE /\ last' = [op |-> "imglist_rand", img |-> images[p].id,
                         offset |-> 1 + (rnd % (size - 1)),
                         ret |-> IdAt(images, imglist_rand(images, size, p, rnd))]
             /\ UNCHANGED <<listvars, galleryvars>>

NextNav == NavInsert \/ NavJump \/ NavDistance \/ NavDir \/ NavRand

SpecNav == InitNav /\ [][NextNav]_vars

(***************************************************************************)
(* Properties of the ordered insertion.                                    *)
(***************************************************************************)
\* a is before b lexicographically, byte by byte, a proper prefix first
LexLess(a, b) ==
    \E k \in 1..(Len(b)) :
        /\ \A m \in 1..(k - 1) : m <= Len(a) /\ a[m] = b[m]
        /\ (k > Len(a) \/ (k <= Len(a) /\ a[k] < b[k]))

\* The numeric-aware comparison the specification describes: left to right,
\* runs of digits as integers of any size, other characters by byte value,
\* the first difference decides.
RECURSIVE NumericAware(_, _, _, _)
NumericAware(a, b, i, j) ==
    IF i > Len(a) \/ j > Len(b) THEN 0
    ELSE IF isdigit(a[i]) /\ isdigit(b[j])
         THEN LET ea == DigitsEnd(a, i)
                  eb == DigitsEnd(b, j)
                  c == BigCmp(BigNorm(RunDigits(SubSeq(a, i, ea - 1))),
                              BigNorm(RunDigits(SubSeq(b, j, eb - 1))))
              IN IF c # 0 THEN c ELSE NumericAware(a, b, ea, eb)
         ELSE IF a[i] # b[j] THEN Sign(a[i] - b[j])
         ELSE NumericAware(a, b, i + 1, j + 1)

SourcesOf(imgs) == [p \in 1..Len(imgs) |-> imgs[p].source]

\* the sources in the order they were inserted: addresses are handed out
\* in that order while nothing is removed
InsertedAs(imgs, seq) ==
    /\ Len(imgs) = Len(seq)
    /\ \A k \in 1..Len(seq) : PosOf(imgs, k) # 0 /\ imgs[PosOf(imgs, k)].source = seq[k]

\* C6: inserting a source that is already present returns the existing entry
\* and leaves the list, the size counter and every field of every entry as
\* they were.
C6_InsertIdempotent ==
    [][(last'.op = "add_entry" /\ \E p \in 1..Len(images) : images[p].source = last'.source)
        => /\ images' = images
           /\ size' = size
           /\ last'.size = size
           /\ \E p \in 1..Len(images) :
                 images[p].source = last'.source /\ images[p].id = last'.ret]_vars

\* a second insert of a present source, with another file size or time
C6_Witness ==
    /\ last.op = "add_entry"
    /\ last.dup
    /\ \E p \in 1..Len(images) :
          /\ images[p].source = last.source
          /\ images[p].id = last.ret
          /\ \/ images[p].file_size # last.st.st_size
             \/ images[p].file_time # last.st.st_mtime

\* C7: under numeric order without reverse the list is non-decreasing under
\* the numeric-aware comparison, whatever was inserted in whatever order;
\* img2.png, img10.png, img1.png give img1.png, img2.png, img10.png.
C7_NumericSorted ==
    (order = "numeric" /\ ~reverse) =>
        /\ \A p, q \in 1..Len(images) :
              p < q => NumericAware(images[p].source, images[q].source, 1, 1) <= 0
        /\ InsertedAs(images, <<s_img2, s_img10, s_img1>>)
              => SourcesOf(images) = <<s_img1, s_img2, s_img10>>

\* C8: under lexicographic order with reverse the list is strictly
\* decreasing; a.png, b.png, c.png give c.png, b.png, a.png.
C8_AlphaReverseSorted ==
    (order = "alpha" /\ reverse) =>
        /\ \A p, q \in 1..Len(images) :
              p < q => LexLess(images[q].source, images[p].source)
        /\ InsertedAs(images, <<s_a, s_b, s_c>>)
              => SourcesOf(images) = <<s_c, s_b, s_a>>

C8_Witness ==
    /\ order = "alpha"
    /\ reverse
    /\ InsertedAs(images, <<s_a, s_b, s_c>>)
    /\ SourcesOf(images) = <<s_c, s_b, s_a>>

(***************************************************************************)
(* SpecLoad: imglist_load is called once, with every batch of sources or   *)
(* of list files, over a file system that has regular files, directories   *)
(* that can and cannot be read, a special file and names without a file.   *)
(***************************************************************************)
MaxBatch == 3

s_adir == <<47, 97, 47>>
s_asrc == <<47, 97>>
s_bsrc == <<47, 98>>
s_csrc == <<47, 99>>
s_cdir == <<47, 99, 47>>
s_1 == <<49>>
s_dot == <<46>>
s_dash == <<45>>
s_ap == <<47, 97, 47, 112>>
s_a9 == <<47, 97, 47, 57>>
s_x == <<120>>
s_l1 == <<108, 49>>
s_l2 == <<108, 50>>
s_l3 == <<108, 51>>
s_l4 == <<108, 52>>

\* "stdin://" and "exec://"
LDRSRC_STDIN == <<115, 116, 100, 105, 110, 58, 47, 47>>

LDRSRC_EXEC == <<101, 120, 101, 99, 58, 47, 47>>

\* The file system, with /a/ the working directory: /a/1 and /a/2 and /b/1
\* are regular files, /a/p is a FIFO, /a, /b and /c are directories, of
\* which /c cannot be opened, and /b/e is an empty sub-directory of /b.
\* st_mode is "none" where stat fails.
s_be == <<47, 98, 47, 101>>

s_bedir == <<47, 98, 47, 101, 47>>

st_mode(path) ==
    IF path \in {s_a1, s_a2, s_b1, s_1, s_x} THEN "reg"
    ELSE IF path \in {s_dot, s_asrc, s_adir, s_bsrc, s_bdir, s_csrc, s_cdir,
                      s_be, s_bedir}
    THEN "dir"
    ELSE IF path = s_ap THEN "fifo"
    ELSE "none"

\* fs_abspath(relative, path, path_max): the absolute path, <<>> when there
\* is none (x stands for a name that does not fit the buffer)
fs_abspath(relative) ==
    IF relative = s_x THEN <<>>
    ELSE IF relative = s_dot THEN s_asrc
    ELSE IF relative # <<>> /\ relative[1] = 47 THEN relative
    ELSE s_adir \o relative

\* opendir(dir) succeeds
opendir(dir) == dir \in {s_adir, s_bdir, s_bedir}

\* the paths add_dir composes from the names readdir returns for a
\* directory, "." and ".." left out, in the order readdir returns them
readdir(dir) ==
    IF dir = s_adir THEN <<s_a1, s_a2, s_ap>>
    ELSE IF dir = s_bdir THEN <<s_b1, s_be>>
    ELSE <<>>

\* add_dir(dir) from "opendir" on; add_dir_loop is its readdir loop over the
\* paths left, img the value of its local variable
RECURSIVE add_dir_opened(_, _, _, _, _)
RECURSIVE add_dir_loop(_, _, _, _, _, _)
add_dir_loop(imgs, sz, ord, rev, paths, img) ==
    IF paths = <<>> THEN [images |-> imgs, size |-> sz, entry |-> img]
    ELSE LET path == Head(paths)
             step == IF st_mode(path) = "dir"
                     THEN IF recursive
                          THEN add_dir_opened(imgs, sz, ord, rev, path \o <<47>>)
                          ELSE [images |-> imgs, size |-> sz, entry |-> img]
                     ELSE IF st_mode(path) = "reg"
                     THEN add_entry(imgs, sz, ord, rev, path, GStat, 0)
                     ELSE [images |-> imgs, size |-> sz, entry |-> img]
         IN CHOOSE r \in {add_dir_loop(n.images, n.size, ord, rev, Tail(paths),
                                       n.entry) : n \in {step}} : TRUE

add_dir_opened(imgs, sz, ord, rev, dir) ==
    IF ~opendir(dir) THEN [images |-> imgs, size |-> sz, entry |-> NULL]
    ELSE LET First(r) ==
                 IF r.entry = NULL THEN r
                 ELSE [r EXCEPT !.entry =
                         r.images[first_of_dir(r.images, dir,
                                               PosOf(r.images, r.entry))].id]
         IN CHOOSE img \in {First(r) : r \in
                               {add_dir_loop(imgs, sz, ord, rev, readdir(dir),
                                             NULL)}} : TRUE

\* add_source that adds an entry for a source that stat does not find
add_source_nostat(imgs, sz, ord, rev, source) ==
    IF HasPrefix(LDRSRC_STDIN, source) \/ HasPrefix(LDRSRC_EXEC, source)
    THEN add_entry(imgs, sz, ord, rev, source, <<>>, 0)
    ELSE IF st_mode(source) = "none"
    THEN add_entry(imgs, sz, ord, rev, source, <<>>, 0)
    ELSE IF fs_abspath(source) = <<>>
    THEN [images |-> imgs, size |-> sz, entry |-> NULL]
    ELSE IF st_mode(source) = "dir"
    THEN add_dir_opened(imgs, sz, ord, rev, fs_abspath(source) \o <<47>>)
    ELSE IF st_mode(source) = "reg"
    THEN add_entry(imgs, sz, ord, rev, fs_abspath(source), GStat, 0)
    ELSE [images |-> imgs, size |-> sz, entry |-> NULL]

\* add_source(source): the list, ctx.size and the entry returned
add_source(imgs, sz, ord, rev, source) ==
    IF HasPrefix(LDRSRC_STDIN, source) \/ HasPrefix(LDRSRC_EXEC, source)
    THEN add_entry(imgs, sz, ord, rev, source, <<>>, 0)
    ELSE IF st_mode(source) = "none"
    THEN [images |-> imgs, size |-> sz, entry |-> NULL]
    ELSE IF fs_abspath(source) = <<>>
    THEN [images |-> imgs, size |-> sz, entry |-> NULL]
    ELSE IF st_mode(source) = "dir"
    THEN add_dir_opened(imgs, sz, ord, rev, fs_abspath(source) \o <<47>>)
    ELSE IF st_mode(source) = "reg"
    THEN add_entry(imgs, sz, ord, rev, fs_abspath(source), GStat, 0)
    ELSE [images |-> imgs, size |-> sz, entry |-> NULL]

\* load_sources, the loop over several sources: the list, ctx.size and the
\* first entry add_source returned
RECURSIVE add_sources(_, _, _, _, _)
add_sources(imgs, sz, ord, rev, sources) ==
    IF sources = <<>> THEN [images |-> imgs, size |-> sz, entry |-> NULL]
    ELSE LET Rest(added) ==
                 LET rest == add_sources(added.images, added.size, ord, rev,
                                         Tail(sources))
                 IN IF added.entry # NULL THEN [rest EXCEPT !.entry = added.entry]
                    ELSE rest
         IN CHOOSE r \in {Rest(added) : added \in
                             {add_source(imgs, sz, ord, rev, Head(sources))}} :
                TRUE

\* load_sources, one source that is not "-": the source, and with all_files
\* the files of its directory
load_single(ord, rev, all_files, source) ==
    LET all == all_files /\ st_mode(source) # "dir"
        Neighbors(img) ==
            IF img.entry = NULL \/ ~all THEN img
            ELSE LET src == img.images[PosOf(img.images, img.entry)].source
                     delim == strrchr_slash(src, Len(src))
                 IN IF delim = 0 THEN img
                    ELSE [add_dir_opened(img.images, img.size, ord, rev,
                                         SubSeq(src, 1, delim))
                             EXCEPT !.entry = img.entry]
    IN CHOOSE r \in {Neighbors(img) : img \in
                        {add_source(<<>>, 0, ord, rev, source)}} : TRUE

\* load_sources(sources, num) on the empty list, in each of its three cases
load_sources_num(ord, rev, all_files, sources) ==
    IF Len(sources) = 0 THEN add_source(<<>>, 0, ord, rev, s_dot)
    ELSE IF Len(sources) = 1
    THEN IF sources[1] = s_dash
         THEN add_source(<<>>, 0, ord, rev, LDRSRC_STDIN)
         ELSE load_single(ord, rev, all_files, sources[1])
    ELSE add_sources(<<>>, 0, ord, rev, sources)

\* the lines getline reads from a list file that fopen opens: l1 to l3 can
\* be opened, every line ends with LF or CR LF but the last of l2
fopen(file) == file \in {s_l1, s_l2, s_l3}

getlines(file) ==
    IF file = s_l1 THEN <<s_a1 \o <<10>>, <<10>>, s_a9 \o <<13, 10>>, s_b1 \o <<10>>>>
    ELSE IF file = s_l2 THEN <<s_bsrc \o <<13, 10>>, s_csrc \o <<10>>, s_1>>
    ELSE IF file = s_l3 THEN <<s_ap \o <<10>>, <<13, 10>>, LDRSRC_STDIN \o <<10>>>>
    ELSE <<>>

\* load_fromfile, "line[--rd] = 0" while the line ends with CR or LF
RECURSIVE strip_crlf(_)
strip_crlf(line) ==
    IF line # <<>> /\ line[Len(line)] \in {13, 10}
    THEN strip_crlf(SubSeq(line, 1, Len(line) - 1))
    ELSE line

\* the sources load_fromfile passes to add_source: the lines of the files
\* that open, stripped, without the empty ones
RECURSIVE file_sources(_)
file_sources(files) ==
    IF files = <<>> THEN <<>>
    ELSE (IF fopen(Head(files))
          THEN SelectSeq([k \in 1..Len(getlines(Head(files))) |->
                             strip_crlf(getlines(Head(files))[k])],
                         LAMBDA line : line # <<>>)
          ELSE <<>>) \o file_sources(Tail(files))

\* load_fromfile(files, num): the list, ctx.size and imglist_first()
load_fromfile(ord, rev, files) ==
    LET First(r) == [r EXCEPT !.entry = IdAt(r.images, IF r.images = <<>> THEN 0 ELSE 1)]
    IN CHOOSE f \in {First(r) : r \in
                        {add_sources(<<>>, 0, ord, rev, file_sources(files))}} : TRUE

\* imglist_load(sources, num): the list, ctx.size and the entry returned
imglist_load(ord, rev, from_file, all_files, sources) ==
    LET Reindexed(r) == [images |-> reindex(r.images), size |-> Len(r.images),
                         entry |-> r.entry]
    IN CHOOSE l \in {Reindexed(r) : r \in
                        {IF from_file THEN load_fromfile(ord, rev, sources)
                         ELSE load_sources_num(ord, rev, all_files, sources)}} : TRUE

\* the sources and the list files swayimg is started with
RECURSIVE SeqsUpTo(_, _)
SeqsUpTo(S, n) ==
    IF n = 0 THEN {<<>>}
    ELSE LET shorter == SeqsUpTo(S, n - 1)
         IN shorter \cup {Append(q, x) : q \in shorter, x \in S}

LoadSources == {s_a1, s_1, s_bsrc, s_csrc, s_ap, s_a9, s_x, s_dash, LDRSRC_STDIN}

LoadFiles == {s_l1, s_l2, s_l3, s_l4}

InitLoad ==
    /\ images = <<>>
    /\ size = 0
    /\ order \in GOrders
    /\ reverse = FALSE
    /\ loop = FALSE
    /\ last = [op |-> "init"]
    /\ recursive \in BOOLEAN
    /\ lock = {}
    /\ loader_active = FALSE
    /\ loader_tid = 0
    /\ current = NULL
    /\ ui = [UiBoot EXCEPT !.pc = "off"]
    /\ workers = [w \in Workers |-> WorkerNone]
    /\ ub = FALSE

\* imglist_load(sources, num) with ctx.from_file and ctx.all_files as
\* imglist_init read them from the configuration
ImglistLoad ==
    /\ last.op = "init"
    /\ \E from_file \in BOOLEAN, all_files \in BOOLEAN :
         \E sources \in SeqsUpTo(IF from_file THEN LoadFiles ELSE LoadSources,
                                 MaxBatch) :
            \E r \in {imglist_load(order, reverse, from_file, all_files, sources)} :
               /\ images' = r.images
               /\ size' = r.size
               /\ last' = [op |-> "imglist_load", from_file |-> from_file,
                           all_files |-> all_files, sources |-> sources,
                           ret |-> r.entry]
    /\ UNCHANGED <<order, reverse, loop, galleryvars>>

NextLoad == ImglistLoad

SpecLoad == InitLoad /\ [][NextLoad]_vars

(***************************************************************************)
(* SpecStore: pstore_load is called for source files and stored            *)
(* thumbnails with every pair of modification times.                       *)
(***************************************************************************)
\* st_mtim values: seconds, and nanoseconds below one second
Timespecs ==
    [tv_sec : 0..MaxSec, tv_nsec : {0, 200000000, 800000000}]

\* what stat gives: failure, or a file's st_mtim
StatTimes == {<<>>} \cup {<<t>> : t \in Timespecs}

InitStore ==
    /\ images = <<>>
    /\ size = 0
    /\ order = "none"
    /\ reverse = FALSE
    /\ loop = FALSE
    /\ last = [op |-> "init"]
    /\ GalleryOff

\* pstore_load(img)
StoreLoad ==
    \E path_len \in {0, 1}, st_image \in StatTimes, st_thumb \in StatTimes,
       thumb_loads \in BOOLEAN :
        /\ last' = [op |-> "pstore_load", path_len |-> path_len,
                    st_image |-> st_image, st_thumb |-> st_thumb,
                    thumb_loads |-> thumb_loads,
                    ret |-> pstore_load(path_len, st_image, st_thumb, thumb_loads)]
        /\ UNCHANGED <<listvars, galleryvars>>

NextStore == StoreLoad

SpecStore == InitStore /\ [][NextStore]_vars

(***************************************************************************)
(* Properties of the navigation functions.                                 *)
(***************************************************************************)
\* C9: imglist_jump(e, d) from the entry at position p is the entry at
\* position p + d when that is within 1..size and NULL otherwise, with the
\* loop flag set or not; so jump(e, 0) = e and jump(first, -1) = NULL.
C9_Jump ==
    last.op = "imglist_jump" =>
        LET p == PosOf(images, last.img)
            t == p + last.distance
        IN /\ p # 0
           /\ (1 <= t /\ t <= size) => last.ret = images[t].id
           /\ (t < 1 \/ t > size) => last.ret = NULL
           /\ last.distance = 0 => last.ret = last.img
           /\ (p = 1 /\ last.distance = -1) => last.ret = NULL

\* a jump off the tail of a looped list of three
C9_Witness ==
    /\ last.op = "imglist_jump"
    /\ loop
    /\ Len(images) = 3
    /\ PosOf(images, last.img) = 2
    /\ last.distance = 2
    /\ last.ret = NULL

\* C10: imglist_distance(a, b) is position(b) - position(a), and it is the
\* additive inverse of imglist_distance(b, a).
C10_Distance ==
    /\ last.op = "imglist_distance" =>
          last.ret = PosOf(images, last.end) - PosOf(images, last.start)
    /\ \A a, b \in 1..Len(images) :
          imglist_distance(images, a, b) = 0 - imglist_distance(images, b, a)

\* a distance taken from a later entry back to an earlier one
C10_Witness ==
    /\ last.op = "imglist_distance"
    /\ PosOf(images, last.start) = 3
    /\ PosOf(images, last.end) = 1
    /\ last.ret = -2

\* the directory a source is in: the source up to its last '/'
DirOf(src) == SubSeq(src, 1, parent_len(src))

\* the positions a scan from position p visits, in its order: to the end of
\* the list, and with loop on round to the entry before p
ScanOrder(n, lp, p, forward) ==
    LET ahead == IF forward THEN [k \in 1..(n - p) |-> p + k]
                 ELSE [k \in 1..(p - 1) |-> p - k]
        round == IF forward THEN [k \in 1..(p - 1) |-> k]
                 ELSE [k \in 1..(n - p) |-> n + 1 - k]
    IN IF lp THEN ahead \o round ELSE ahead

\* the first position of a scan whose entry is in another directory than
\* the entry at p, 0 if there is none
NearestOtherDir(imgs, lp, p, forward) ==
    LET scan == ScanOrder(Len(imgs), lp, p, forward)
        Other(k) == DirOf(imgs[scan[k]].source) # DirOf(imgs[p].source)
    IN IF \E k \in 1..Len(scan) : Other(k)
       THEN scan[CHOOSE k \in 1..Len(scan) :
                    Other(k) /\ \A j \in 1..(k - 1) : ~Other(j)]
       ELSE 0

\* C11: imglist_next_dir and imglist_prev_dir return the nearest entry in
\* the scan direction (round the ends with loop on) whose directory is not
\* the start entry's, NULL exactly when the scan meets none, and the scan
\* ends within as many iterations as the list has entries.
C11_NextDir ==
    last.op = "imglist_dir"
    => LET p == PosOf(images, last.img)
       IN /\ last.ret = IdAt(images, NearestOtherDir(images, loop, p, last.forward))
          /\ last.steps <= Len(images)

\* with entries in /a/, /b/, /a/ and loop on, the scan back from the first
\* entry goes round the end of the list and returns the /b/ entry
C11_Witness ==
    /\ last.op = "imglist_dir"
    /\ loop /\ ~last.forward
    /\ Len(images) = 3
    /\ images[1].source = s_a1 /\ images[2].source = s_b1 /\ images[3].source = s_a2
    /\ last.img = images[1].id
    /\ last.ret = images[2].id

(***************************************************************************)
(* Properties of the source ingestion.                                     *)
(***************************************************************************)
\* add_source adds what the source names: it is a special source, a regular
\* file with an absolute path, or a directory with one that can be opened
ValidSource(source) ==
    \/ HasPrefix(LDRSRC_STDIN, source) \/ HasPrefix(LDRSRC_EXEC, source)
    \/ /\ st_mode(source) = "reg"
       /\ fs_abspath(source) # <<>>
    \/ /\ st_mode(source) = "dir"
       /\ fs_abspath(source) # <<>>
       /\ opendir(fs_abspath(source) \o <<47>>)

\* the sources of a call of imglist_load that do not fail: of the sources
\* given, or of the lines of the list files given
ValidSources ==
    IF last.from_file
    THEN SelectSeq(file_sources(SelectSeq(last.sources, fopen)), ValidSource)
    ELSE SelectSeq(last.sources, ValidSource)

\* the list when the sources are added one after the other and reindexed
AddedInOrder(sources) ==
    reindex(add_sources(<<>>, 0, order, reverse, sources).images)

\* C16: the list imglist_load leaves for several sources, or for list files,
\* is the list that imglist_load leaves for the sources that do not fail, in
\* the same order.
C16_FailuresSkipped ==
    (last.op = "imglist_load" /\ (last.from_file \/ Len(last.sources) >= 2))
    => IF last.from_file
       THEN images = AddedInOrder(ValidSources)
       ELSE images = imglist_load(order, reverse, FALSE, last.all_files,
                                  ValidSources).images

\* C16, amended: the list imglist_load leaves for several sources, or for
\* list files, is the list left by adding the sources that do not fail one
\* after the other in the same order; imglist_load leaves that list for them
\* when at least two sources do not fail.
C16_FailuresSkippedSeveral ==
    (last.op = "imglist_load" /\ (last.from_file \/ Len(last.sources) >= 2))
    => /\ images = AddedInOrder(ValidSources)
       /\ size = Len(images)
       /\ (~last.from_file /\ Len(ValidSources) >= 2)
          => images = imglist_load(order, reverse, FALSE, last.all_files,
                                   ValidSources).images

\* imglist_load was called with three sources of which one fails, and the
\* list has the entries of the other two
C16_Witness ==
    /\ last.op = "imglist_load" /\ ~last.from_file
    /\ Len(last.sources) = 3
    /\ Len(ValidSources) = 2
    /\ Len(images) >= 2

(***************************************************************************)
(* Properties of the persistent thumbnail storage.                         *)
(***************************************************************************)
\* the modification time a is later than b
Newer(a, b) ==
    \/ a.tv_sec > b.tv_sec
    \/ a.tv_sec = b.tv_sec /\ a.tv_nsec > b.tv_nsec

\* C12: pstore_load returns false whenever the source file's modification
\* time is later than the stored thumbnail's, by however little, also when
\* the stored file exists and loads.
C12_NewerIsMiss ==
    (/\ last.op = "pstore_load"
     /\ last.st_image # <<>> /\ last.st_thumb # <<>>
     /\ Newer(last.st_image[1], last.st_thumb[1]))
    => ~last.ret

(***************************************************************************)
(* Properties of the gallery and its loader thread.                        *)
(***************************************************************************)
\* the loader thread w is at work on its queue
Processing(w) == workers[w].pc \in {"check", "load", "commit"}

\* the loader thread w has not been created, or has returned
Exited(w) == workers[w].pc \in {"none", "done"}

\* C1: at most one loader thread processes queue items: while one does, any
\* other loader thread has returned, so the thread that loader_restart
\* cancelled has exited before the thread it starts processes an item.
C1_OneWorker ==
    \A w \in Workers, v \in Workers :
        (w # v /\ Processing(w)) => Exited(v)

\* loader_restart was called with a new queue while a loader thread was
\* active, has cancelled it and waits for it, and that thread has just run
\* through its queue on its own
C1_Witness ==
    /\ ui.pc = "rs_join"
    /\ ui.queue # <<>>
    /\ workers[loader_tid].pc = "exit"

\* the UI thread is inside loader_restart
InRestart == ui.pc \in {"rs_check", "rs_cancel", "rs_join", "rs_start"}

\* C2: no thread is inside loader_restart while it holds the list lock.
\* (The loader threads never call loader_restart.)
C2_NoRestartUnderLock == InRestart => UI \notin lock

\* the step of loader thread w is a commit that was not cancelled
Commits(w) ==
    /\ workers[w].pc = "commit"
    /\ workers'[w].pc # "commit"
    /\ loader_active

\* C3: a commit for an item whose entry was removed from the list while the
\* item was being loaded, and not added again since, leaves the list as it
\* is, and the list has no entry with the item's source after it.
C3_NoResurrection ==
    [][\A w \in Workers :
          (Commits(w) /\ workers[w].removed /\ ~workers[w].recreated)
          => /\ images' = images
             /\ imglist_find(images', workers[w].queue[workers[w].i]) = 0]_vars

\* a loader thread has committed an item whose entry had been removed while
\* the item was being loaded, with a thumbnail loaded for it
C3_Witness ==
    \E w \in Workers :
        /\ workers[w].committed
        /\ workers[w].removed /\ ~workers[w].recreated
        /\ workers[w].it_thumb

\* C4: whenever the list lock is free after imglist_load, the entries'
\* indices are 1..size in list order and ctx.size is the number of entries.
C4_Indexed ==
    (lock = {} /\ ui.pc # "boot")
    => /\ size = Len(images)
       /\ \A p \in 1..Len(images) : images[p].index = p

\* the lock is free after a loader thread removed the first of two entries,
\* whose load had failed
C4_Witness ==
    /\ lock = {}
    /\ \E w \in Workers :
         /\ workers[w].committed /\ ~workers[w].it_thumb
         /\ ~workers[w].removed
    /\ Len(images) = 1 /\ images[1].id = 2

\* C5: no two entries of the list have the same source.
C5_UniqueSources ==
    \A p \in 1..Len(images), q \in 1..Len(images) :
        p # q => images[p].source # images[q].source

\* on_fsevent has handled the creation of a file that the list has an entry
\* for, and the list still has that one entry for it
C5_Witness ==
    /\ ui.pc = "fs_finish"
    /\ ui.ev.type = "create" /\ ui.ev.dup
    /\ imglist_find(images, ui.ev.path) # 0

\* loader thread w takes a step from one of its two lock points
AtLockPoint(w) ==
    /\ workers[w].pc \in {"check", "commit"}
    /\ \/ workers'[w].pc # workers[w].pc
       \/ workers'[w].i # workers[w].i

\* C13: a loader thread that finds ctx.loader_active cleared at a lock point
\* leaves the list and ctx.size as they are and goes to the end of its loop,
\* and a thread past its loop never comes back to an item of its queue.
C13_CancelAtLockPoints ==
    [][\A w \in Workers :
          /\ (AtLockPoint(w) /\ ~loader_active)
             => /\ images' = images
                /\ size' = size
                /\ workers'[w].pc = "free"
          /\ workers[w].pc \in {"free", "evict", "exit"}
             => workers'[w].pc \in {"free", "evict", "exit", "done"}]_vars

\* a cancelled loader thread is past its loop with an item of its queue
\* left, whose entry is in the list without a thumbnail
C13_Witness ==
    \E w \in Workers :
        /\ workers[w].pc = "free"
        /\ workers[w].i < Len(workers[w].queue)
        /\ \E p \in 1..Len(images) :
              /\ images[p].source = workers[w].queue[workers[w].i + 1]
              /\ ~images[p].thumb

\* C14: every call of loader_restart returns.
C14_RestartReturns == (InRestart /\ ~ub) ~> (~InRestart \/ ub)

\* every call of loader_restart by a thread that does not hold the list lock
\* returns
C14_RestartReturnsUnlocked ==
    (InRestart /\ UI \notin lock /\ ~ub) ~> (~InRestart \/ ub)

\* C15: a commit that was not cancelled, for an item that was loaded without
\* a thumbnail and whose source has an entry, takes that entry out of the
\* list and leaves the other entries in their order with the indices 1..n
\* and ctx.size = n; the thread goes on to the next item of its queue, or to
\* the end of its loop, and no later item of the queue has that source.
C15_FailedLoadRemoves ==
    [][\A w \in Workers :
          LET wk == workers[w]
              source == wk.queue[wk.i]
              origin == imglist_find(images, source)
          IN (Commits(w) /\ ~wk.it_thumb /\ origin # 0)
             => /\ Len(images') = Len(images) - 1
                /\ size' = Len(images')
                /\ \A p \in 1..Len(images') :
                      images'[p] = [images[IF p < origin THEN p ELSE p + 1]
                                       EXCEPT !.index = p]
                /\ imglist_find(images', source) = 0
                /\ \/ workers'[w].pc = "check" /\ workers'[w].i = wk.i + 1
                   \/ workers'[w].pc = "free" /\ wk.i = Len(wk.queue)
                /\ \A k \in (wk.i + 1)..Len(wk.queue) : wk.queue[k] # source]_vars

\* a loader thread is at its second item after the load of its first item
\* failed, and the list has the other entry left and none for the first item
C15_Witness ==
    \E w \in Workers :
        /\ workers[w].pc = "check" /\ workers[w].i = 2
        /\ workers[w].committed /\ ~workers[w].it_thumb /\ ~workers[w].removed
        /\ imglist_find(images, workers[w].queue[1]) = 0
        /\ Len(images) = 1 /\ images[1].index = 1 /\ size = 1

\* C17: on_fsevent for the removal of a file that the list has an entry for
\* passes that entry to the observers while it is in the list, and the list
\* has no entry for the file once the observers have returned; when
\* on_fsevent unlocks the list, the list has no entry for the file.
C17_NotifyThenRemove ==
    [][/\ (ui.pc = "idle" /\ ui'.pc = "fs_finish" /\ ui'.ev.type = "remove"
           /\ imglist_find(images, ui'.ev.path) # 0)
          => /\ ui'.ev.notified = "member"
             /\ imglist_find(images', ui'.ev.path) = 0
       /\ (ui.pc = "fs_finish" /\ ui.ev.type = "remove" /\ UI \notin lock')
          => imglist_find(images', ui.ev.path) = 0]_vars

\* on_fsevent has handled the removal of a file whose entry it has passed
\* to the observers, and the list has no entry for the file
C17_Witness ==
    /\ ui.pc = "fs_finish"
    /\ ui.ev.type = "remove" /\ ui.ev.notified = "member"
    /\ imglist_find(images, ui.ev.path) = 0
    /\ UI \in lock

\* the entries of the list in their order, each with its index
Structure(imgs) ==
    [p \in 1..Len(imgs) |->
        [id |-> imgs[p].id, source |-> imgs[p].source, index |-> imgs[p].index]]

\* C18: no step taken while on_fsevent handles a modify event, from its
\* imglist_lock to its imglist_unlock, changes the entries of the list,
\* their order, their indices or ctx.size, with an entry for the modified
\* file or without one.
C18_ModifyKeepsStructure ==
    [][(ui.ev.type = "modify" \/ ui'.ev.type = "modify")
       => /\ Structure(images') = Structure(images)
          /\ size' = size]_vars

\* on_fsevent has handled a modify event for a file that the list has an
\* entry for, which it has passed to the observers
C18_Witness ==
    /\ ui.pc = "fs_finish"
    /\ ui.ev.type = "modify" /\ ui.ev.notified = "member"
    /\ Len(images) = 2

\* path names a directory: it ends with '/'
IsDir(path) == path[Len(path)] = 47

\* C19: on_fsevent for a directory, with ctx.recursive off, and on_fsevent
\* for the removal or the modification of a file that the list has no entry
\* for, passes no entry to the observers and leaves the list, ctx.size and
\* the gallery's selection as they are, and so does the end of the handler,
\* which unlocks the list.
C19_IgnoredEvents ==
    [][/\ (/\ ui.pc = "idle" /\ ui'.pc # "idle" /\ ui'.ev.type \in FsEvents
           /\ \/ IsDir(ui'.ev.path) /\ ~recursive
              \/ /\ ~IsDir(ui'.ev.path)
                 /\ ui'.ev.type \in {"remove", "modify"}
                 /\ imglist_find(images, ui'.ev.path) = 0)
          => /\ ui'.ev.notified = "none"
             /\ ui'.pc = "fs_finish"
             /\ images' = images /\ size' = size /\ current' = current
       /\ (/\ ui.pc = "fs_finish" /\ ui.ev.notified = "none"
           /\ \/ IsDir(ui.ev.path) /\ ~recursive
              \/ ~IsDir(ui.ev.path) /\ ui.ev.type \in {"remove", "modify"})
          => /\ images' = images /\ size' = size /\ current' = current
             /\ ui'.pc # "fs_finish" => UI \notin lock']_vars

\* with ctx.recursive off, on_fsevent has handled the creation of directory
\* /b/, which has file /b/1, and the list has its one entry, for /a/1
C19_Witness ==
    /\ ~recursive
    /\ ui.pc = "fs_finish"
    /\ ui.ev.type = "create" /\ ui.ev.path = s_bdir
    /\ ui.ev.notified = "none"
    /\ Len(images) = 1 /\ images[1].source = s_a1

\* C20: a loader thread that is at pstore_load, image_load,
\* image_thumb_create or pstore_save does not hold the list lock, and a
\* loader thread that holds the lock is in its check of the queue's image,
\* in its commit or in clear_thumbnails, up to the imglist_unlock that ends
\* each of them.
C20_LoadOutsideLock ==
    \A w \in Workers :
        /\ workers[w].pc \in LoadSteps => Loader(w) \notin lock
        /\ Loader(w) \in lock
           => workers[w].pc \in {"check", "commit", "evict", "unlock_break",
                                 "unlock_skip", "unlock_load", "unlock_next",
                                 "unlock_exit"}

\* a loader thread is at image_load while the UI thread holds the list lock
C20_Witness ==
    \E w \in Workers :
        /\ workers[w].pc = "image_load"
        /\ lock = {UI}

\* loader thread w is past the loop that frees its queue
QueueFreed(w) ==
    workers[w].pc \in {"lock3", "evict", "unlock_exit", "exit", "done"}

\* C21: once a loader thread is past "free the queue", image_free has been
\* called once for every image of its queue, whether the thread left its
\* loop at the end of the queue or at a cancellation; before that it has
\* been called for none; and no image of a queue is an entry of the list.
C21_QueueDestroyedOnce ==
    \A w \in Workers :
        LET wk == workers[w]
        IN /\ QueueFreed(w) => \A k \in 1..Len(wk.queue) : wk.freed[k] = 1
           /\ ~QueueFreed(w) => \A k \in 1..Len(wk.queue) : wk.freed[k] = 0
           /\ Len(wk.freed) = Len(wk.queue)
           /\ \A p \in 1..Len(images), k \in 1..Len(wk.queue) :
                 images[p].id # QueueId(w, k)

\* a loader thread that was cancelled at the first image of a queue of two
\* has freed its queue
C21_Witness ==
    \E w \in Workers :
        /\ workers[w].pc = "exit"
        /\ workers[w].i = 1 /\ Len(workers[w].queue) = 2
        /\ workers[w].freed = <<1, 1>>
        /\ ~loader_active

\* C22: whenever a loader thread has changed the list (a thumbnail made from
\* the frames in its check, a thumbnail put into the entry or an entry
\* removed in its commit), app_redraw is called after the change.
C22_RedrawAfterChange == (last.op = "change") ~> (last.op = "app_redraw")

\* app_redraw was called after a loader thread removed the selected entry,
\* whose load had failed
C22_Witness ==
    /\ last.op = "app_redraw"
    /\ current \notin Ids(images)
    /\ \E w \in Workers : workers[w].pc \in {"lock1", "free"} /\ ~workers[w].it_thumb

\* C23: imglist_load returns no entry only if the list is empty after the
\* sources were taken in: whenever the list has an entry, the value returned
\* is an entry of the list.  The code does not keep this: add_dir assigns the
\* result of the call for a sub-directory to the entry it returns, so a
\* directory whose last name is an empty sub-directory returns no entry
\* although its files were added.
C23_ReturnsEntry ==
    last.op = "imglist_load" /\ images # <<>> => last.ret \in Ids(images)

\* imglist_load "/b" in recursive mode: /b/1 is in the list, nothing returned
C23_EmptySubdirLast ==
    /\ last.op = "imglist_load"
    /\ recursive
    /\ ~last.from_file
    /\ last.sources = <<s_bsrc>>
    /\ Len(images) = 1
    /\ images[1].source = s_b1
    /\ last.ret = NULL

\* C24: after the initial load, a step that adds an entry to the list,
\* removes one or changes an index is taken by the thread that holds the
\* list lock: by a thread that takes the free lock for the step, or by the
\* UI thread at the end of on_fsevent, which has held the lock since the
\* event came in.  No such step is taken beside a thread that holds the lock.
C24_ChangesUnderLock ==
    [][(ui.pc # "boot" /\ Structure(images') # Structure(images))
       => \/ lock = {}
          \/ lock = {UI} /\ ui.pc = "fs_finish" /\ ui'.pc # "fs_finish"]_vars

\* on_fsevent holds the lock with the entry of a created file in the list,
\* and a loader thread stands before its commit
C24_Witness ==
    /\ ui.pc = "fs_finish" /\ UI \in lock
    /\ ui.ev.type = "create" /\ ~ui.ev.dup
    /\ imglist_find(images, ui.ev.path) # 0
    /\ \E w \in Workers :
          /\ workers[w].pc = "commit"
          /\ imglist_find(images, workers[w].queue[workers[w].i]) # 0
          /\ ~workers[w].it_thumb
          /\ loader_active

\* C25: whenever on_fsevent passes an entry to the observers, for a create,
\* a modify or a remove event, the index of every entry of the list is its
\* position, counted from 1, the entry that the event has added included.
\* (For a remove event the observers see the list before the removal, for
\* the other events the list that add_dir or add_entry has left.)  The code
\* does not keep this: add_entry gives the new entry the index ctx.size and
\* puts it at its place in the order, and reindex is called after the
\* observers.
C25_IndexedWhenNotified ==
    [][(/\ ui.pc = "idle" /\ ui'.pc # "idle"
        /\ ui'.ev.type \in FsEvents
        /\ ui'.ev.notified # "none")
       => LET seen == IF ui'.ev.type = "remove" THEN images ELSE images'
          IN \A p \in 1..Len(seen) : seen[p].index = p]_vars

\* on_fsevent has passed the new entry of a created file to the observers:
\* it stands before another entry and has a higher index
C25_NewEntryMisindexed ==
    /\ ui.pc = "fs_finish" /\ UI \in lock
    /\ ui.ev.type = "create" /\ ~ui.ev.dup /\ ui.ev.notified = "member"
    /\ \E p \in 1..Len(images) :
          /\ images[p].source = ui.ev.path
          /\ p < Len(images)
          /\ images[p].index = Len(images)

\* the image of its queue that loader thread w works on needs no load: the
\* list has no entry with its source, or the entry has a thumbnail, or it
\* has the decoded frames that image_thumb_create makes the thumbnail from
NoLoadNeeded(w) ==
    LET origin == imglist_find(images, workers[w].queue[workers[w].i])
    IN origin = 0 \/ images[origin].thumb \/ images[origin].frames

DigitRun(s) ==
    /\ s # <<>>
    /\ DigitsEnd(s, 1) = Len(s) + 1
    /\ BigCmp(BigNorm(RunDigits(s)), ULLONG_MAX_digits) <= 0

\* C27: the numeric comparison of two runs of digits whose values fit an
\* unsigned 64-bit integer has the sign of the difference of the two values,
\* also when the values are 2^63 or more apart; stated for the comparisons
\* of add_entry's source with the entries of the list.  The code does not
\* keep this: the unsigned difference is stored in an ssize_t and has the
\* opposite sign from 2^63 on.
C27_SignOfDifference ==
    (order = "numeric" /\ last.op = "add_entry" /\ DigitRun(last.source))
    => \A p \in 1..Len(images) :
          DigitRun(images[p].source)
          => numeric_cmp(last.source, images[p].source)
             = BigCmp(BigNorm(RunDigits(last.source)),
                      BigNorm(RunDigits(images[p].source)))

\* 9223372036854775808 was inserted into a list that has 0, and it stands
\* before 0
C27_WrappedDifference ==
    /\ order = "numeric" /\ ~reverse
    /\ last.op = "add_entry" /\ last.source = s_big /\ ~last.dup
    /\ \E p, q \in 1..Len(images) :
          /\ p < q
          /\ images[p].source = s_big
          /\ images[q].source = s_zero

\* C28: no thread calls imglist_lock while it holds the list lock: the UI
\* thread does not hold the lock where its next call is the imglist_lock of
\* on_activate, of clear_thumbnails or of on_resize.  (The loader threads
\* unlock before each of their calls of imglist_lock.)  The code does not
\* keep this: on_fsevent holds the lock when a modify event for the selected
\* entry takes it through on_imglist and reload to clear_thumbnails.
C28_NoRelock ==
    UI \in lock => ui.pc \notin {"activate", "clear", "resize"}

\* on_fsevent has passed a modify event for the selected entry on, reload
\* has come back from loader_restart, and clear_thumbnails is to lock the
\* list that the thread has locked in on_fsevent
C28_RelockInReload ==
    /\ ui.pc = "clear" /\ ui.ret = <<"fs_finish">>
    /\ UI \in lock
    /\ ui.ev.type = "modify" /\ ui.ev.notified = "member"
    /\ imglist_find(images, ui.ev.path) = PosOf(images, current)

\* app_exit was called: the gallery is left and the program ends
Leaving ==
    \/ ui.pc = "halted"
    \/ \E k \in 1..Len(ui.ret) : ui.ret[k] = "halted"
    \/ ui.ev.type \in FsEvents /\ ui.ev.exit

\* C29: while the gallery is at work, ctx.layout.current is an entry of the
\* list, whatever the selections, skips, file system events and commits of
\* the loader threads so far (the handler that has called app_exit left
\* aside).  The code does not keep this: the loader thread removes the entry
\* whose load failed without a look at ctx.layout.current.
C29_CurrentInList ==
    (ui.pc \notin {"boot", "activate"} /\ ~Leaving) => current \in Ids(images)

\* a loader thread has removed the selected entry, whose load failed: the
\* list has other entries and ctx.layout.current is none of them
C29_CurrentRemovedByLoader ==
    /\ ui.pc = "idle" /\ ~ub
    /\ images # <<>>
    /\ current \notin Ids(images)
    /\ \E w \in Workers :
          /\ workers[w].committed /\ ~workers[w].it_thumb /\ ~workers[w].removed
          /\ imglist_find(images, workers[w].queue[IF workers[w].pc = "check"
                                                   THEN workers[w].i - 1
                                                   ELSE workers[w].i]) = 0

\* C30: a loader thread that was cancelled before it returns makes no pass
\* of clear_thumbnails(false): whenever a loader thread goes through
\* clear_thumbnails, ctx.loader_active is set, that is, loader_restart has
\* not cancelled the thread.  The code does not keep this: the thread tests
\* ctx.loader_active before it calls clear_thumbnails, and loader_restart
\* can clear the flag between the two.
C30_NoEvictionAfterCancel ==
    [][\A w \in Workers :
          (workers[w].pc = "evict" /\ workers'[w].pc = "exit") => loader_active]_vars

\* loader_restart has cancelled the loader thread and waits for it in
\* pthread_join, and the thread, which found the flag set after its loop,
\* is about to call clear_thumbnails(false)
C30_CancelledBeforeEviction ==
    /\ ui.pc = "rs_join" /\ ~loader_active /\ ~ub
    /\ lock = {}
    /\ workers[loader_tid].pc = "evict"

\* the value that orders the entry: its modification time or its file size
OrderValue(ord, img) == IF ord = "mtime" THEN img.file_time ELSE img.file_size

\* C31: under the order by modification time, and under the order by file
\* size, the list without reverse is non-increasing in that value, newest or
\* largest first, and entries of equal value stand in the order they were
\* inserted in; with reverse the list is non-decreasing.  (Addresses are
\* handed out in the order of insertion.)
C31_TimeSizeSorted ==
    order \in {"mtime", "size"} =>
        \A p, q \in 1..Len(images) :
            p < q =>
               LET vp == OrderValue(order, images[p])
                   vq == OrderValue(order, images[q])
               IN IF reverse THEN vp <= vq
                  ELSE /\ vp >= vq
                       /\ vp = vq => images[p].id < images[q].id

\* three inserts under the order by time without reverse: the newest file
\* was inserted last and stands first, before two files of the same time
C31_Witness ==
    /\ order = "mtime" /\ ~reverse
    /\ Len(images) = 3
    /\ images[1].id = 3
    /\ images[1].file_time > images[2].file_time
    /\ images[2].file_time = images[3].file_time
    /\ images[2].id = 1

\* C32: a redraw of the window cancels no loader thread: the call of
\* loader_restart that draw_thumbnails makes never clears ctx.loader_active
\* for a thread to end, as draw_thumbnails makes a queue, and the call, only
\* when it has found the flag cleared with the list locked.  The calls that
\* cancel are those of select_next, on_resize, reload and on_deactivate.
C32_RedrawCancelsNothing ==
    [][(ui.pc = "rs_cancel" /\ ui'.pc = "rs_join")
       => last.op # "draw_thumbnails"]_vars

\* draw_thumbnails has called loader_restart with a queue, after a loader
\* thread has returned, and loader_restart is to start a new thread
C32_Witness ==
    /\ last.op = "draw_thumbnails"
    /\ ui.pc = "rs_start" /\ ui.queue # <<>>
    /\ ~loader_active
    /\ \E w \in Workers : workers[w].pc = "done"

\* C33: for a list of two entries or more and any entry of it,
\* imglist_rand returns an entry of the list other than that entry: the
\* offset is between 1 and ctx.size - 1, and the walk goes on from the first
\* entry after the last one.
C33_RandOther ==
    (last.op = "imglist_rand" /\ size >= 2)
    => /\ last.offset \in 1..(size - 1)
       /\ last.ret \in Ids(images)
       /\ last.ret # last.img

\* imglist_rand for the last of three entries has returned the second one,
\* two steps on, by way of the first
C33_Witness ==
    /\ last.op = "imglist_rand"
    /\ Len(images) = 3 /\ size = 3
    /\ last.img = images[3].id
    /\ last.offset = 2
    /\ last.ret = images[2].id

====
